---- MODULE Spec2Model ----
(***************************************************************************)
(* Workflow orchestration engine of speckit-vibe:                          *)
(*   - the persisted workflow state document (.speckit-vc/state.json),     *)
(*     written by state-tracker.py commands and by the orchestrator        *)
(*     (vibe_workflow.py, WorkflowState / WorkflowExecutor);               *)
(*   - the task scheduler of one phase (vibe_task.py, TaskExecutor) and    *)
(*     the command line of vibe_task.py;                                   *)
(*   - the execution runner (adapters/base.py, AgentAdapter.execute);      *)
(*   - the tasks.md parser (vibe_task.py, Task.parse_line and              *)
(*     parse_tasks_file), the prompt and command builder of the Copilot    *)
(*     adapter, and the configuration (config-manager.py, TaskConfig);     *)
(*   - the package storage of the release server (upload, delete and the   *)
(*     retention cleanup);                                                 *)
(*   - the numbered work directories of init_spec.py (create_work_dir);    *)
(*   - the adapter registry (adapters/registry.py), the phase loop of the  *)
(*     implement stage (_run_implementation) and upload requests served    *)
(*     at once by the release server.                                      *)
(***************************************************************************)
EXTENDS Integers, Sequences, FiniteSets, TLC

(***************************************************************************)
(* Program constants                                                       *)
(***************************************************************************)
WORKFLOW_STAGES == <<"specify", "clarify", "plan", "tasks", "checklist", "analyze", "implement">>

NumStages == Len(WORKFLOW_STAGES)

(***************************************************************************)
(* Bounds of the model                                                     *)
(***************************************************************************)
\* the wall clock takes the values 0..MaxClock
MaxClock == 1
\* stage arguments of commands are drawn from the last MaxStageArg stages
MaxStageArg == 2

\* a task document holds 1..MaxTasks task lines
MaxTasks == 3
\* phase numbers of the task lines are 1..MaxPhase
MaxPhase == 2
\* the configured max_parallel is 1..MaxWorkers
MaxWorkers == 2
\* the configured timeout_minutes is 1..MaxTimeoutMinutes
MaxTimeoutMinutes == 2
\* an argument of a command has 0..MaxArgLen characters
MaxArgLen == 1
\* a command has 1..MaxArgs arguments
MaxArgs == 2
\* a tasks.md document has 0..MaxLines lines
MaxLines == 4
\* the text after the id of a task line has 0..MaxRest tokens
MaxRest == 4
\* the release server stores at most MaxUploads uploads in one behaviour
MaxUploads == 3
\* max_packages of the release server is in 1..MaxRetained
MaxRetained == 2
\* create_work_dir is called by the processes 1..MaxProcs, once each
MaxProcs == 2
\* upload requests for one file name are served at once by 1..MaxRequests
MaxRequests == 2

(***************************************************************************)
(* Values                                                                  *)
(***************************************************************************)
NULL == "null"
NoTime == -1
StageArgs == {WORKFLOW_STAGES[i] : i \in (NumStages - MaxStageArg + 1)..NumStages}
SpecDirs == {"d1"}
TaskIds == {"T1"}
\* the deprecated positional requirement argument is not given
Requirements == {NULL}

InSeq(x, s) == \E i \in 1..Len(s) : s[i] = x

SeqSet(s) == {s[i] : i \in 1..Len(s)}

NoDup(s) == \A i, j \in 1..Len(s) : s[i] = s[j] => i = j

StageIndex(stage) == CHOOSE i \in 1..NumStages : WORKFLOW_STAGES[i] = stage

VARIABLES
    disk,       \* .speckit-vc/state.json: [kind, doc]
    now,        \* wall clock (datetime.now())
    pc,         \* position of the orchestrator process
    mem,        \* WorkflowExecutor.state, the in-memory WorkflowState
    idx,        \* loop index of run_autonomous_workflow (1-based)
    exec_dir,   \* WorkflowExecutor.spec_dir
    dry_run,    \* WorkflowExecutor.dry_run
    report,     \* what the orchestrator returned to its caller
    out,        \* outcome of the last state-tracker command: what resume printed,
                \* an uncaught exception, a checkpoint of a stage marked before
    marked,     \* history: stages marked complete since the document was created
    tasks,      \* TaskExecutor.tasks in document order (parse_tasks_file)
    max_parallel, \* config.max_parallel
    ppc,        \* position of execute_phase: idle, seq, par, done
    seq_queue,  \* sequential_tasks not yet executed
    pending,    \* parallel tasks submitted to the pool and not yet started
    running,    \* tasks whose agent process is running
    invoked,    \* history: the adapter invocations, in the order they started
    task_result, \* what execute_task gave for each task: none, true, false, raised
    status_files, \* .speckit-vc/tasks/<id>.json: the exit code recorded, or NoCode
    phase_result, \* what execute_phase gave: none, true, false, raised
    timeout_minutes, \* agent_config.timeout_minutes of a --task run
    exec_result, \* the ExecutionResult adapter.execute returned in a --task run
    exit_status, \* exit status of the vibe_task.py process, or NoCode
    argv,       \* the argument vector adapter.build_command gives for the run
    printed,    \* the command a dry run printed, or NotPrinted
    child,      \* what happened to the child process the runner spawned last
    tasks_file, \* the lines of tasks.md that parse_tasks_file reads
    parse_pc,   \* position of parse_tasks_file: idle, scanning, returned
    line_no,    \* number of lines parse_tasks_file has consumed
    current_phase, \* current_phase of parse_tasks_file
    parsed_tasks, \* the dict parse_tasks_file builds: task id -> Task
    scanned,    \* history: the Tasks parse_line gave, in scan order
    context,    \* the ExecutionContext of the command to build, or NoContext
    permissions, \* the ToolPermissions of the command to build
    built,      \* the command build_command gave, or NotBuilt
    config_file, \* .speckit-vc.json: [present, data]
    cfg_pc,     \* position of main before the run: idle, loaded
    cfg_exit,   \* exit status of the last config-manager.py command, or NoCode
    files,      \* the storage directory of the release server: name -> file
    rs_now,     \* the clock the modification times of the files come from
    max_packages, \* PackageService.max_packages
    upload,     \* the upload request in flight: [pc, name, content, overwrite]
    upload_resp, \* status code of the last upload answered, or NoCode
    cleanup,    \* the background cleanup running: [pc, todo, deleted]
    cleanups_due, \* cleanups added to background_tasks and not yet started
    cleanup_result, \* what the last cleanup_old_packages returned, or NoCode
    base_dir,   \* the numbered directories of the specs base: <<number, slug>>
    latest_link, \* the target of the .latest symlink, or NoLink
    calls,      \* the create_work_dir call of each process
    adapters,   \* AdapterRegistry._adapters: adapter name -> adapter class
    default_adapter, \* AdapterRegistry._default_adapter
    reg_out,    \* what the last call on the registry gave its caller
    requests,   \* the upload requests being served at once, each [pc, ...]
    impl        \* _run_implementation: [pc, phase, visited, result]

storeVars == <<disk, now, pc, mem, idx, exec_dir, dry_run, report, out, marked>>

phaseVars == <<tasks, max_parallel, ppc, seq_queue, pending, running, invoked,
               task_result, status_files, phase_result>>

runVars == <<timeout_minutes, exec_result, exit_status, argv, printed, child>>

parseVars == <<tasks_file, parse_pc, line_no, current_phase, parsed_tasks, scanned>>

promptVars == <<context, permissions, built>>

configVars == <<config_file, cfg_pc, cfg_exit>>

releaseVars == <<files, rs_now, max_packages, upload, upload_resp, cleanup,
                 cleanups_due, cleanup_result>>

workVars == <<base_dir, latest_link, calls>>

registryVars == <<adapters, default_adapter, reg_out>>

lateVars == <<registryVars, requests, impl>>

auxVars == <<parseVars, promptVars, configVars, releaseVars, workVars, lateVars>>

vars == <<storeVars, phaseVars, runVars, auxVars>>

(***************************************************************************)
(* The state document                                                      *)
(***************************************************************************)
NoTaskStatus == [present |-> FALSE, map |-> [t \in TaskIds |-> "none"]]

EmptyTaskStatus == [present |-> TRUE, map |-> [t \in TaskIds |-> "none"]]

\* state-tracker.py create_initial_state
create_initial_state(t) ==
    [workflow_id |-> t, started_at |-> t, updated_at |-> t,
     current_stage |-> NULL, completed_stages |-> <<>>,
     failed_stage |-> NULL, failed_at |-> NoTime,
     spec_dir |-> NULL, requirement |-> NULL,
     task_status |-> EmptyTaskStatus]

\* WorkflowState(workflow_id=..., started_at=..., spec_dir=..., requirement=...)
\* the dataclass has no task_status field
NewWorkflowState(t, dir, req) ==
    [workflow_id |-> t, started_at |-> t, updated_at |-> NoTime,
     current_stage |-> NULL, completed_stages |-> <<>>,
     failed_stage |-> NULL, failed_at |-> NoTime,
     spec_dir |-> dir, requirement |-> req,
     task_status |-> NoTaskStatus]

NoDoc == NewWorkflowState(NoTime, NULL, NULL)

Absent == [kind |-> "absent", doc |-> NoDoc]

\* kinds of damaged files: "badjson" is text that is not JSON (a truncated
\* write), "undecodable" is bytes that are not text at all
CorruptKinds == {"badjson", "undecodable"}

\* state-tracker.py load_state: [res, st]; res = "raise" is an uncaught exception
load_state(d, t) ==
    CASE d.kind = "absent"      -> [res |-> "fresh", st |-> create_initial_state(t)]
      [] d.kind = "ok"          -> [res |-> "loaded", st |-> d.doc]
      [] d.kind = "badjson"     -> [res |-> "fresh", st |-> create_initial_state(t)]
      [] OTHER                  -> [res |-> "raise", st |-> NoDoc]

\* state-tracker.py save_state: json.dump of the dict, updated_at stamped
save_state(st, t) == [kind |-> "ok", doc |-> [st EXCEPT !.updated_at = t]]

\* WorkflowState.load: cls(**data) raises TypeError on a key that is not a
\* field of the dataclass; JSONDecodeError and TypeError give None
WorkflowState_load(d) ==
    CASE d.kind = "absent"      -> [res |-> "none", st |-> NoDoc]
      [] d.kind = "badjson"     -> [res |-> "none", st |-> NoDoc]
      [] d.kind = "ok"          -> IF d.doc.task_status.present
                                   THEN [res |-> "none", st |-> NoDoc]
                                   ELSE [res |-> "loaded", st |-> d.doc]
      [] OTHER                  -> [res |-> "raise", st |-> NoDoc]

\* WorkflowState.save: json.dump(self.__dict__), updated_at stamped
WorkflowState_save(st, t) == [kind |-> "ok", doc |-> [st EXCEPT !.updated_at = t]]

Append1(s, x) == IF InSeq(x, s) THEN s ELSE Append(s, x)

RECURSIVE FirstMissing(_, _)
FirstMissing(i, completed) ==
    IF i > NumStages THEN NULL
    ELSE IF ~InSeq(WORKFLOW_STAGES[i], completed) THEN WORKFLOW_STAGES[i]
    ELSE FirstMissing(i + 1, completed)

\* state-tracker.py get_next_stage / WorkflowState.get_next_stage
get_next_stage(completed) == FirstMissing(1, completed)

(***************************************************************************)
(* Initial state: no state document, orchestrator not running              *)
(***************************************************************************)
NoReport == [code |-> -1, failed |-> NULL, why |-> "none"]
NoOut == [cmd |-> "none", val |-> NULL]

TaskNums == 1..MaxTasks

NoCode == -1

\* exit codes of the agent process: success, failure, timeout
ExitCodes == {0, 1, 124}

(***************************************************************************)
(* Command lines: an argument is a sequence of characters, a command is a  *)
(* sequence of arguments                                                   *)
(***************************************************************************)
\* the characters of arguments: a letter, a blank, a single quote
ArgChars == {"a", " ", "'"}

DQ == "\""

ArgsOfLen(n) == [1..n -> ArgChars]

Arguments == UNION {ArgsOfLen(n) : n \in 0..MaxArgLen}

ArgVectors == UNION {[1..n -> Arguments] : n \in 1..MaxArgs}

RECURSIVE Flatten(_, _)
\* sep.join(parts)
Flatten(parts, sep) ==
    IF Len(parts) = 0 THEN <<>>
    ELSE IF Len(parts) = 1 THEN parts[1]
    ELSE parts[1] \o sep \o Flatten(Tail(parts), sep)

\* ' '.join(cmd), what the dry runs of execute_task and execute_stage print
space_join(v) == Flatten(v, <<" ">>)

\* s.replace("'", "'\"'\"'")
escape_quotes(s) ==
    Flatten([i \in 1..Len(s) |->
                IF s[i] = "'" THEN <<"'", DQ, "'", DQ, "'">> ELSE <<s[i]>>], <<>>)

\* shlex.quote
shlex_quote(s) ==
    IF Len(s) = 0 THEN <<"'", "'">>
    ELSE IF \A i \in 1..Len(s) : s[i] = "a" THEN s
    ELSE <<"'">> \o escape_quotes(s) \o <<"'">>

\* shlex.join
shlex_join(v) == Flatten([i \in 1..Len(v) |-> shlex_quote(v[i])], <<" ">>)

RECURSIVE shlex_scan(_, _, _, _, _, _)
\* shlex.split(s), POSIX rules, from position i: mode is "plain", "sq" or
\* "dq", cur the argument being read, has tells whether there is one
shlex_scan(s, i, mode, cur, has, acc) ==
    IF i > Len(s)
    THEN IF mode # "plain" THEN [ok |-> FALSE, args |-> <<>>]
         ELSE [ok |-> TRUE, args |-> IF has THEN Append(acc, cur) ELSE acc]
    ELSE LET c == s[i] IN
         CASE mode = "sq" ->
                IF c = "'" THEN shlex_scan(s, i + 1, "plain", cur, TRUE, acc)
                ELSE shlex_scan(s, i + 1, "sq", Append(cur, c), TRUE, acc)
           [] mode = "dq" ->
                IF c = DQ THEN shlex_scan(s, i + 1, "plain", cur, TRUE, acc)
                ELSE shlex_scan(s, i + 1, "dq", Append(cur, c), TRUE, acc)
           [] OTHER ->
                IF c = " "
                THEN IF has THEN shlex_scan(s, i + 1, "plain", <<>>, FALSE, Append(acc, cur))
                     ELSE shlex_scan(s, i + 1, "plain", <<>>, FALSE, acc)
                ELSE IF c = "'" THEN shlex_scan(s, i + 1, "sq", cur, TRUE, acc)
                ELSE IF c = DQ THEN shlex_scan(s, i + 1, "dq", cur, TRUE, acc)
                ELSE shlex_scan(s, i + 1, "plain", Append(cur, c), TRUE, acc)

\* shlex.split
shlex_split(s) == shlex_scan(s, 1, "plain", <<>>, FALSE, <<>>)

\* nothing was printed; a printed command is a sequence of characters
NotPrinted == <<"-">>

\* the command of a run that needs no quoting
PlainCmd == <<<<"a">>, <<"a">>>>

\* no child process was spawned
NoChild == [kind |-> "none", seconds |-> 0, code |-> 0]

\* the text of stderr: which message it is, and what the message names
Stderr(msg, minutes, install) == [msg |-> msg, minutes |-> minutes, install |-> install]

\* ExecutionResult of a run that has not happened
NoResult ==
    [exit_code |-> NoCode, stderr |-> Stderr("none", 0, FALSE), spawned |-> FALSE,
     command |-> <<>>]

RunIdle ==
    /\ timeout_minutes = 1
    /\ exec_result = NoResult
    /\ exit_status = NoCode
    /\ argv = PlainCmd
    /\ printed = NotPrinted
    /\ child = NoChild

(***************************************************************************)
(* The task document (tasks.md) and its parser                             *)
(***************************************************************************)
\* The text after the task id is a sequence of tokens separated by blanks:
\* the parallel marker, user-story references, a back-quoted path, a word.
ParallelToken == "[P]"

StoryTokens == {"[US1]", "[US2]"}

\* a back-quoted path, the back quotes written as bars
PathTokens == {"|f|"}

RestTokens == {ParallelToken, "w"} \cup StoryTokens \cup PathTokens

\* f"US{us_match.group(1)}"
story_of(token) == IF token = "[US1]" THEN "US1" ELSE "US2"

\* path_match.group(1): the text between the quotes
path_of(token) == "f"

\* the checkbox of a task line: [ ], [x], [X]
Checkboxes == {" ", "x", "X"}

DocTaskIds == {"T001", "T002"}

\* current_phase = None
NoPhase == 0

HeaderLine(n) ==
    [kind |-> "header", number |-> n, checkbox |-> " ", task_id |-> NULL, rest |-> <<>>]

OtherLine ==
    [kind |-> "other", number |-> 0, checkbox |-> " ", task_id |-> NULL, rest |-> <<>>]

TaskLine(box, id, rest) ==
    [kind |-> "task", number |-> 0, checkbox |-> box, task_id |-> id, rest |-> rest]

RestsUpTo(n) == UNION {[1..k -> RestTokens] : k \in 0..n}

\* documents of short lines
PlainLines ==
    {HeaderLine(n) : n \in 1..MaxPhase} \cup {OtherLine} \cup
    {TaskLine(" ", id, <<"w">>) : id \in DocTaskIds} \cup
    {TaskLine("x", id, <<"[P]", "[US1]", "w", "|f|">>) : id \in DocTaskIds}

PlainDocuments == UNION {[1..k -> PlainLines] : k \in 0..MaxLines}

\* documents of one header and one task line with any text after the id
RichDocuments ==
    {<<HeaderLine(n), TaskLine(box, "T001", rest)>> :
        n \in 1..MaxPhase, box \in Checkboxes, rest \in RestsUpTo(MaxRest)}

Documents == PlainDocuments \cup RichDocuments

\* str.replace(token, empty): every occurrence goes
Without(rest, token) == SelectSeq(rest, LAMBDA x : x # token)

\* re.search: the first token of the set, or NULL
FirstOf(rest, tokens) ==
    IF \E i \in 1..Len(rest) : rest[i] \in tokens
    THEN rest[CHOOSE i \in 1..Len(rest) :
                 /\ rest[i] \in tokens
                 /\ \A j \in 1..(i - 1) : rest[j] \notin tokens]
    ELSE NULL

NoTask ==
    [task_id |-> NULL, description |-> <<>>, raw_line |-> OtherLine, is_completed |-> FALSE,
     is_parallel |-> FALSE, user_story |-> NULL, phase |-> NoPhase, file_path |-> NULL]

\* Task.parse_line: NoTask is None
parse_line(line, phase) ==
    IF line.kind # "task" THEN NoTask
    ELSE LET rest1 == Without(line.rest, ParallelToken)
             us_match == FirstOf(rest1, StoryTokens)
             rest2 == IF us_match # NULL THEN Without(rest1, us_match) ELSE rest1
             path_match == FirstOf(rest2, PathTokens)
         IN  [task_id |-> line.task_id,
              description |-> rest2,
              raw_line |-> line,
              is_completed |-> line.checkbox \in {"x", "X"},
              is_parallel |-> InSeq(ParallelToken, line.rest),
              user_story |-> IF us_match # NULL THEN story_of(us_match) ELSE NULL,
              phase |-> phase,
              file_path |-> IF path_match # NULL THEN path_of(path_match) ELSE NULL]

\* the keys of the dict that these assignments built, in the order a Python
\* dict keeps them: the order in which each key was first assigned
RECURSIVE dict_keys(_)
dict_keys(puts) ==
    IF puts = <<>> THEN <<>>
    ELSE LET front == dict_keys(SubSeq(puts, 1, Len(puts) - 1))
             id == puts[Len(puts)].task_id
         IN  IF InSeq(id, front) THEN front ELSE Append(front, id)

\* get_tasks_by_phase: [t for t in tasks.values() if t.phase == phase]
get_tasks_by_phase(keys, map, phase) ==
    SelectSeq([i \in 1..Len(keys) |-> map[keys[i]]], LAMBDA t : t.phase = phase)

(***************************************************************************)
(* The agent command and its prompt (adapters/copilot.py)                  *)
(***************************************************************************)
\* the five sentences every autonomous suffix starts with
BaseDirectives ==
    <<"-- [AUTONOMOUS VIBE MODE] CRITICAL:",
      "1) DO NOT ask user questions - decide yourself.",
      "2) DO NOT skip steps or request confirmation.",
      "3) Make reasonable assumptions and document them.",
      "4) Complete ALL work without asking for approval.">>

\* the stages stage_hints has a key for
HintedStages == {"clarify", "plan", "tasks", "checklist", "analyze", "implement"}

stage_hints(stage) ==
    CASE stage = "clarify" -> "For CLARIFY: ..."
      [] stage = "plan" -> "For PLAN: ..."
      [] stage = "tasks" -> "For TASKS: ..."
      [] stage = "checklist" -> "For CHECKLIST: ..."
      [] stage = "analyze" -> "For ANALYZE: ..."
      [] stage = "implement" -> "For IMPLEMENT: ..."

\* the suffix as the sequence of the sentences that " ".join puts together
build_autonomous_suffix(stage) ==
    IF stage \in HintedStages THEN Append(BaseDirectives, stage_hints(stage))
    ELSE BaseDirectives

NoContext ==
    [mode |-> "none", stage |-> NULL, debug_log_dir |-> FALSE, no_ask_user |-> FALSE,
     autonomous_suffix |-> <<>>]

\* execute_stage: ExecutionContext(mode=STAGE, stage=stage, no_ask_user=autonomous, ...)
StageContext(stage, autonomous, has_spec_dir) ==
    [mode |-> "stage", stage |-> stage, debug_log_dir |-> has_spec_dir,
     no_ask_user |-> autonomous,
     autonomous_suffix |-> IF autonomous THEN build_autonomous_suffix(stage) ELSE <<>>]

\* execute_task: ExecutionContext(mode=TASK, ..., no_ask_user=True), no suffix given
TaskContext ==
    [mode |-> "task", stage |-> NULL, debug_log_dir |-> TRUE, no_ask_user |-> TRUE,
     autonomous_suffix |-> <<>>]

Contexts ==
    {StageContext(stage, autonomous, has_spec_dir) :
        stage \in SeqSet(WORKFLOW_STAGES), autonomous \in BOOLEAN, has_spec_dir \in BOOLEAN}
    \cup {TaskContext}

NoPermissions == [allow_all |-> FALSE, excluded_tools |-> <<>>]

Permissions ==
    [allow_all : BOOLEAN, excluded_tools : {<<>>, <<"skill(speckit-vibe)">>}]

NotBuilt == <<>>

\* _build_prompt: the prompt as the sequence of its sentences
build_prompt(ctx) ==
    IF ctx.mode = "stage"
    THEN <<"/speckit", ctx.stage>> \o ctx.autonomous_suffix
    ELSE <<"Execute task", "task_info", "Follow the implementation plan",
           "Mark the task as completed">> \o ctx.autonomous_suffix

\* one pair of arguments per tool
RECURSIVE excluded_args(_)
excluded_args(tools) ==
    IF tools = <<>> THEN <<>>
    ELSE <<<<"--excluded-tools">>, <<Head(tools)>>>> \o excluded_args(Tail(tools))

\* CopilotAdapter.build_command: each argument is a sequence of sentences
build_command(ctx, perm) ==
    <<<<"copilot">>, <<"--model">>, <<"model">>>>
    \o (IF perm.allow_all THEN <<<<"--allow-all">>>> ELSE <<>>)
    \o excluded_args(perm.excluded_tools)
    \o (IF ctx.no_ask_user THEN <<<<"--no-ask-user">>>> ELSE <<>>)
    \o (IF ctx.debug_log_dir
        THEN <<<<"--log-level">>, <<"debug">>, <<"--log-dir">>, <<"dir">>>> ELSE <<>>)
    \o <<<<"--share">>, <<"session_md">>>>
    \o <<<<"--stream">>, <<"off">>, <<"-p">>, build_prompt(ctx)>>

PromptIdle ==
    /\ context = NoContext
    /\ permissions = NoPermissions
    /\ built = NotBuilt

(***************************************************************************)
(* The configuration file (.speckit-vc.json)                               *)
(***************************************************************************)
ConfigKeys == {"max_parallel", "timeout_minutes"}

CONFIG_SCHEMA ==
    [max_parallel |-> [min |-> 1, max |-> 10],
     timeout_minutes |-> [min |-> 1, max |-> 120]]

DEFAULT_CONFIG == [max_parallel |-> 3, timeout_minutes |-> 30]

\* a key the file does not hold
NoValue == -1

\* the values tried for a key: the default, the ends of its range, their neighbours
ConfigValues(key) ==
    {CONFIG_SCHEMA[key].min - 1, CONFIG_SCHEMA[key].min, DEFAULT_CONFIG[key],
     CONFIG_SCHEMA[key].max, CONFIG_SCHEMA[key].max + 1}

NoConfigFile == [present |-> FALSE, data |-> [k \in ConfigKeys |-> NoValue]]

ConfigFiles ==
    {NoConfigFile} \cup
    {[present |-> TRUE, data |-> [max_parallel |-> mp, timeout_minutes |-> tm]] :
        mp \in ConfigValues("max_parallel") \cup {NoValue},
        tm \in ConfigValues("timeout_minutes") \cup {NoValue}}

\* config-manager.py load_config: the defaults updated with the file
load_config(file) ==
    IF ~file.present THEN DEFAULT_CONFIG
    ELSE [k \in ConfigKeys |->
             IF file.data[k] = NoValue THEN DEFAULT_CONFIG[k] ELSE file.data[k]]

\* config-manager.py validate_value, for a key of type int
validate_value(key, value) ==
    /\ value >= CONFIG_SCHEMA[key].min
    /\ value <= CONFIG_SCHEMA[key].max

\* TaskConfig.load / WorkflowConfig.load: data.get(key, default)
TaskConfig_load(file) ==
    IF ~file.present THEN DEFAULT_CONFIG
    ELSE [k \in ConfigKeys |->
             IF file.data[k] = NoValue THEN DEFAULT_CONFIG[k] ELSE file.data[k]]

\* --parallel N as argparse gives it; 0 stands for the option left out too,
\* main testing `if args.parallel`
ParallelArgs == {0, 2, 11}

ConfigIdle ==
    /\ config_file = NoConfigFile
    /\ cfg_pc = "idle"
    /\ cfg_exit = NoCode

(***************************************************************************)
(* The release server: storage (storage.py)                                *)
(***************************************************************************)
\* A file name is the sequence of its dot-separated parts that matter:
\* <<"a">> is a, <<"a", "sha256">> is a.sha256.
BaseNames == {<<"a">>, <<"b">>, <<"c">>}

\* self.root / f"{filename}.sha256"
Sidecar(name) == Append(name, "sha256")

\* the names a client uploads or deletes: packages, and the name of a checksum file
UploadNames == BaseNames \cup {Sidecar(<<"a">>)}

FileNames == UploadNames \cup {Sidecar(n) : n \in UploadNames}

\* entry.name.endswith('.sha256')
IsChecksumName(name) == Len(name) > 1 /\ name[Len(name)] = "sha256"

\* the bytes a client uploads; the empty upload
EmptyContent == ""

Contents == {"c1", "c2", EmptyContent}

\* hashlib.sha256(content).hexdigest(): the text h1 for the bytes c1
hexdigest(content) == IF content = "c1" THEN "h1" ELSE "h2"

NoFile == [content |-> "none", mtime |-> 0]

\* StorageService.list_packages: the names of the entries listed
list_packages(fs) == {n \in FileNames : fs[n] # NoFile /\ ~IsChecksumName(n)}

\* PackageService.list_packages: sorted by created_at, newest first
RECURSIVE newest_first(_, _)
newest_first(fs, names) ==
    IF names = {} THEN <<>>
    ELSE LET n == CHOOSE x \in names : \A y \in names : fs[y].mtime <= fs[x].mtime
         IN  <<n>> \o newest_first(fs, names \ {n})

NoUpload == [pc |-> "idle", name |-> <<>>, content |-> EmptyContent, overwrite |-> FALSE]

NoCleanup == [pc |-> "idle", todo |-> <<>>, deleted |-> 0]

ReleaseIdle ==
    /\ files = [n \in FileNames |-> NoFile]
    /\ rs_now = 0
    /\ max_packages = 1
    /\ upload = NoUpload
    /\ upload_resp = NoCode
    /\ cleanup = NoCleanup
    /\ cleanups_due = 0
    /\ cleanup_result = NoCode

ParseIdle ==
    /\ tasks_file = <<>>
    /\ parse_pc = "idle"
    /\ line_no = 0
    /\ current_phase = NoPhase
    /\ parsed_tasks = [id \in DocTaskIds |-> NoTask]
    /\ scanned = <<>>

(***************************************************************************)
(* Work directories (init_spec.py)                                         *)
(***************************************************************************)
Procs == 1..MaxProcs

\* what generate_slug gives for the feature names of the callers
Slugs == {"s1", "s2"}

max_attempts == 100

NoLink == <<>>

NoDir == <<>>

\* dir_name: the number and the slug
DirName(num, slug) == <<num, slug>>

\* the scan of the base directory: one more than the largest number found
next_num(dirs) ==
    LET nums == {d[1] : d \in dirs}
    IN  IF nums = {} THEN 1 ELSE 1 + (CHOOSE n \in nums : \A m \in nums : m <= n)

NoCall ==
    [pc |-> "idle", slug |-> "", num |-> 0, attempt |-> 0, made |-> {},
     result |-> NoDir, error |-> ""]

WorkIdle ==
    /\ base_dir = {}
    /\ latest_link = NoLink
    /\ calls = [p \in Procs |-> NoCall]

(***************************************************************************)
(* The adapter registry (adapters/registry.py).  A class is what register  *)
(* is given: the name its instances carry and whether constructing one     *)
(* succeeds.                                                               *)
(***************************************************************************)
AdapterClasses ==
    { [cls |-> "CopilotAdapter", name |-> "copilot", constructs |-> TRUE],
      [cls |-> "ClaudeAdapter", name |-> "claude-code", constructs |-> TRUE],
      [cls |-> "OtherCopilot", name |-> "copilot", constructs |-> TRUE],
      [cls |-> "GeminiAdapter", name |-> "gemini", constructs |-> TRUE],
      [cls |-> "BrokenAdapter", name |-> "broken", constructs |-> FALSE],
      [cls |-> "BrokenClaude", name |-> "claude-code", constructs |-> FALSE] }

CopilotAdapter == CHOOSE c \in AdapterClasses : c.cls = "CopilotAdapter"

AdapterNames == {c.name : c \in AdapterClasses} \cup {"codex"}

NoRegOut == [op |-> "none", arg |-> NULL, gave |-> NULL, error |-> NULL, available |-> {}]

\* the registry once the module is imported: register(CopilotAdapter) has run
RegistryIdle ==
    /\ adapters = [n \in {"copilot"} |-> CopilotAdapter]
    /\ default_adapter = "copilot"
    /\ reg_out = NoRegOut

NoRequests == <<>>

NoImpl == [pc |-> "idle", phase |-> 0, visited |-> <<>>, result |-> "none"]

LateIdle ==
    /\ RegistryIdle
    /\ requests = NoRequests
    /\ impl = NoImpl

AuxIdle ==
    /\ ParseIdle
    /\ PromptIdle
    /\ ConfigIdle
    /\ ReleaseIdle
    /\ WorkIdle
    /\ LateIdle

PhaseIdle ==
    /\ max_parallel = 1
    /\ ppc = "idle"
    /\ seq_queue = <<>>
    /\ pending = {}
    /\ running = {}
    /\ invoked = <<>>
    /\ task_result = [t \in TaskNums |-> "none"]
    /\ status_files = [t \in TaskNums |-> NoCode]
    /\ phase_result = "none"

Init ==
    /\ tasks = <<>>
    /\ PhaseIdle
    /\ AuxIdle
    /\ RunIdle
    /\ disk = Absent
    /\ now = 0
    /\ pc = "idle"
    /\ mem = NoDoc
    /\ idx = 0
    /\ exec_dir = NULL
    /\ dry_run = FALSE
    /\ report = NoReport
    /\ out = NoOut
    /\ marked = <<>>

orchVars == <<pc, mem, idx, exec_dir, dry_run, report>>

\* history of the stages marked complete, restarted with every fresh document
MarkedAfter(fresh, stage) == Append1(IF fresh THEN <<>> ELSE marked, stage)

MarkedKeep(fresh) == IF fresh THEN <<>> ELSE marked

(***************************************************************************)
(* state-tracker.py commands; each is one load-modify-save of the document *)
(* and runs while no orchestrator process is running (single control       *)
(* thread)                                                                 *)
(***************************************************************************)
TrackerCrash(cmd) ==
    /\ out' = [cmd |-> "any", val |-> "exception"]
    /\ UNCHANGED <<disk, marked>>

\* a checkpoint without the membership test
checkpoint_state_dup(st, stage) ==
    LET s1 == [st EXCEPT !.completed_stages = Append(st.completed_stages, stage)]
        s2 == IF s1.current_stage = stage THEN [s1 EXCEPT !.current_stage = NULL] ELSE s1
    IN  IF s2.failed_stage = stage
        THEN [s2 EXCEPT !.failed_stage = NULL, !.failed_at = NoTime]
        ELSE s2

\* a checkpoint that clears current_stage whatever stage it names
checkpoint_state_clear(st, stage) ==
    LET s1 == [st EXCEPT !.completed_stages = Append1(st.completed_stages, stage),
                         !.current_stage = NULL]
    IN  IF s1.failed_stage = stage
        THEN [s1 EXCEPT !.failed_stage = NULL, !.failed_at = NoTime]
        ELSE s1

\* cmd_checkpoint
checkpoint_state(st, stage) ==
    LET s1 == [st EXCEPT !.completed_stages = Append1(st.completed_stages, stage)]
        s2 == IF s1.current_stage = stage THEN [s1 EXCEPT !.current_stage = NULL] ELSE s1
    IN  IF s2.failed_stage = stage
        THEN [s2 EXCEPT !.failed_stage = NULL, !.failed_at = NoTime]
        ELSE s2

cmd_checkpoint(stage) ==
    /\ pc = "idle"
    /\ LET ld == load_state(disk, now) IN
         IF ld.res = "raise" THEN TrackerCrash("checkpoint")
         ELSE /\ disk' = save_state(checkpoint_state(ld.st, stage), now)
              /\ out' = IF InSeq(stage, ld.st.completed_stages)
                        THEN [cmd |-> "checkpoint", val |-> "again"]
                        ELSE NoOut
              /\ marked' = MarkedAfter(ld.res = "fresh", stage)
    /\ UNCHANGED <<now, orchVars>>
    /\ UNCHANGED phaseVars
    /\ UNCHANGED <<runVars, auxVars>>

\* cmd_start
start_state(st, stage) ==
    LET s1 == [st EXCEPT !.current_stage = stage]
    IN  IF s1.failed_stage = stage
        THEN [s1 EXCEPT !.failed_stage = NULL, !.failed_at = NoTime]
        ELSE s1

cmd_start(stage) ==
    /\ pc = "idle"
    /\ LET ld == load_state(disk, now) IN
         IF ld.res = "raise" THEN TrackerCrash("start")
         ELSE /\ disk' = save_state(start_state(ld.st, stage), now)
              /\ out' = NoOut
              /\ marked' = MarkedKeep(ld.res = "fresh")
    /\ UNCHANGED <<now, orchVars>>
    /\ UNCHANGED phaseVars
    /\ UNCHANGED <<runVars, auxVars>>

\* cmd_fail
fail_state(st, stage, t) ==
    [st EXCEPT !.failed_stage = stage, !.failed_at = t, !.current_stage = NULL]

cmd_fail(stage) ==
    /\ pc = "idle"
    /\ LET ld == load_state(disk, now) IN
         IF ld.res = "raise" THEN TrackerCrash("fail")
         ELSE /\ disk' = save_state(fail_state(ld.st, stage, now), now)
              /\ out' = NoOut
              /\ marked' = MarkedKeep(ld.res = "fresh")
    /\ UNCHANGED <<now, orchVars>>
    /\ UNCHANGED phaseVars
    /\ UNCHANGED <<runVars, auxVars>>

\* a reset that keeps the task statuses of the document it replaces
cmd_reset_keep_tasks ==
    /\ pc = "idle"
    /\ disk' = save_state([create_initial_state(now) EXCEPT
                               !.task_status = IF disk.kind = "ok" THEN disk.doc.task_status
                                               ELSE EmptyTaskStatus], now)
    /\ out' = NoOut
    /\ marked' = <<>>
    /\ UNCHANGED <<now, orchVars>>
    /\ UNCHANGED phaseVars
    /\ UNCHANGED <<runVars, auxVars>>

\* cmd_reset (--force, or the prompt answered y)
cmd_reset ==
    /\ pc = "idle"
    /\ disk' = save_state(create_initial_state(now), now)
    /\ out' = NoOut
    /\ marked' = <<>>
    /\ UNCHANGED <<now, orchVars>>
    /\ UNCHANGED phaseVars
    /\ UNCHANGED <<runVars, auxVars>>

\* a resume that forgets the failed stage
resume_output_forward(st) ==
    LET next_stage == get_next_stage(st.completed_stages)
    IN  IF next_stage # NULL THEN next_stage ELSE "COMPLETE"

\* what cmd_resume prints for a loaded state
resume_output(st) ==
    IF st.failed_stage # NULL THEN st.failed_stage
    ELSE LET next_stage == get_next_stage(st.completed_stages)
         IN  IF next_stage # NULL THEN next_stage ELSE "COMPLETE"

\* cmd_resume
cmd_resume ==
    /\ pc = "idle"
    /\ LET ld == load_state(disk, now) IN
         IF ld.res = "raise" THEN TrackerCrash("resume")
         ELSE /\ out' = [cmd |-> "resume", val |-> resume_output(ld.st)]
              /\ UNCHANGED <<disk, marked>>
    /\ UNCHANGED <<now, orchVars>>
    /\ UNCHANGED phaseVars
    /\ UNCHANGED <<runVars, auxVars>>

\* cmd_status --json: prints the loaded state, saves nothing
cmd_status ==
    /\ pc = "idle"
    /\ LET ld == load_state(disk, now) IN
         IF ld.res = "raise" THEN TrackerCrash("status")
         ELSE /\ out' = NoOut
              /\ UNCHANGED <<disk, marked>>
    /\ UNCHANGED <<now, orchVars>>
    /\ UNCHANGED phaseVars
    /\ UNCHANGED <<runVars, auxVars>>

\* cmd_set_spec_dir
cmd_set_spec_dir(dir) ==
    /\ pc = "idle"
    /\ LET ld == load_state(disk, now) IN
         IF ld.res = "raise" THEN TrackerCrash("set-spec-dir")
         ELSE /\ disk' = save_state([ld.st EXCEPT !.spec_dir = dir], now)
              /\ out' = NoOut
              /\ marked' = MarkedKeep(ld.res = "fresh")
    /\ UNCHANGED <<now, orchVars>>
    /\ UNCHANGED phaseVars
    /\ UNCHANGED <<runVars, auxVars>>

\* cmd_task start|complete|fail: adds the task_status key when it is missing
task_state(st, action, task_id) ==
    LET status == CASE action = "start" -> "in_progress"
                    [] action = "complete" -> "completed"
                    [] OTHER -> "failed"
    IN  [st EXCEPT !.task_status =
            [present |-> TRUE, map |-> [st.task_status.map EXCEPT ![task_id] = status]]]

cmd_task(action, task_id) ==
    /\ pc = "idle"
    /\ LET ld == load_state(disk, now) IN
         IF ld.res = "raise" THEN TrackerCrash("task")
         ELSE /\ disk' = save_state(task_state(ld.st, action, task_id), now)
              /\ out' = NoOut
              /\ marked' = MarkedKeep(ld.res = "fresh")
    /\ UNCHANGED <<now, orchVars>>
    /\ UNCHANGED phaseVars
    /\ UNCHANGED <<runVars, auxVars>>

(***************************************************************************)
(* The orchestrator, vibe_workflow.py                                      *)
(***************************************************************************)
\* WorkflowState.mark_started
mark_started(st, stage) == [st EXCEPT !.current_stage = stage]

\* a mark_completed without the membership test
mark_completed_dup(st, stage) ==
    [st EXCEPT !.completed_stages = Append(st.completed_stages, stage),
               !.current_stage = NULL]

\* WorkflowState.mark_completed
mark_completed(st, stage) ==
    [st EXCEPT !.completed_stages = Append1(st.completed_stages, stage),
               !.current_stage = NULL]

\* WorkflowState.mark_failed
mark_failed(st, stage, t) ==
    [st EXCEPT !.current_stage = NULL, !.failed_stage = stage, !.failed_at = t]

\* the process returns to its caller with an exit code; failed names the
\* stage whose failure it reports, why tells what ended the run
Return(code, failed, why) ==
    /\ pc' = "returned"
    /\ report' = [code |-> code, failed |-> failed, why |-> why]

\* WorkflowExecutor.init_state followed by the entry of the stage loop
\* (run_autonomous_workflow) or of a single stage (--reanalyze)
InitStateThen(dir, req, dry, next_pc, start_index) ==
    LET ld == WorkflowState_load(disk) IN
    /\ exec_dir' = dir
    /\ dry_run' = dry
    /\ IF ld.res = "raise"
       THEN \* caught by main's except Exception
            /\ Return(1, NULL, "exception")
            /\ UNCHANGED <<disk, mem, idx, marked>>
       ELSE /\ pc' = next_pc
            /\ idx' = start_index
            /\ UNCHANGED report
            /\ IF ld.res = "none"
               THEN /\ disk' = WorkflowState_save(NewWorkflowState(now, dir, req), now)
                    /\ mem' = disk'.doc
                    /\ marked' = <<>>
               ELSE /\ mem' = ld.st
                    /\ UNCHANGED <<disk, marked>>

\* main: --auto [--stage S] [--spec-dir D] [requirement]; a requirement with
\* no --spec-dir creates a new spec directory
MainAuto(stage_arg, dir_arg, req, dry) ==
    /\ pc = "idle"
    /\ out' = NoOut
    /\ LET dir == IF dir_arg = NULL /\ req # NULL THEN "d1" ELSE dir_arg
           start_index == IF stage_arg = NULL THEN 1 ELSE StageIndex(stage_arg)
       IN  InitStateThen(dir, req, dry, "loop", start_index)
    /\ UNCHANGED now
    /\ UNCHANGED phaseVars
    /\ UNCHANGED <<runVars, auxVars>>

\* main: --resume [--spec-dir D]
MainResume(dir_arg, dry) ==
    /\ pc = "idle"
    /\ out' = NoOut
    /\ LET ld == WorkflowState_load(disk) IN
         IF ld.res # "loaded"
         THEN \* "No workflow state found. Cannot resume." or an uncaught exception
              /\ Return(1, NULL, IF ld.res = "raise" THEN "exception" ELSE "nostate")
              /\ UNCHANGED <<disk, mem, idx, exec_dir, dry_run, marked>>
         ELSE LET next_stage == get_next_stage(ld.st.completed_stages) IN
              IF next_stage = NULL
              THEN /\ Return(0, NULL, "complete")
                   /\ UNCHANGED <<disk, mem, idx, exec_dir, dry_run, marked>>
              ELSE InitStateThen(IF dir_arg # NULL THEN dir_arg ELSE ld.st.spec_dir,
                                 NULL, dry, "loop", StageIndex(next_stage))
    /\ UNCHANGED now
    /\ UNCHANGED phaseVars
    /\ UNCHANGED <<runVars, auxVars>>

\* main: --reanalyze --spec-dir D
MainReanalyze(dir_arg, dry) ==
    /\ pc = "idle"
    /\ out' = NoOut
    /\ InitStateThen(dir_arg, NULL, dry, "single", StageIndex("analyze"))
    /\ UNCHANGED now
    /\ UNCHANGED phaseVars
    /\ UNCHANGED <<runVars, auxVars>>

\* _detect_spec_dir, called after the specify stage when spec_dir is unset
detect_spec_dir(stage, dir, st) ==
    IF stage = "specify" /\ dir = NULL /\ st.spec_dir # NULL THEN st.spec_dir ELSE dir

\* execute_stage up to the call of the adapter: a dry run returns True at
\* once, otherwise the stage is marked started and the agent runs
ExecuteStageBegin ==
    /\ pc \in {"loop", "single"}
    /\ idx <= NumStages
    /\ pc = "loop" => WORKFLOW_STAGES[idx] # "implement"
    /\ LET stage == WORKFLOW_STAGES[idx] IN
         IF dry_run
         THEN /\ IF pc = "loop"
                 THEN /\ pc' = "loop"
                      /\ idx' = idx + 1
                      /\ exec_dir' = detect_spec_dir(stage, exec_dir, mem)
                      /\ UNCHANGED report
                 ELSE /\ Return(0, NULL, "ok")
                      /\ UNCHANGED <<idx, exec_dir>>
              /\ UNCHANGED <<disk, mem>>
         ELSE /\ disk' = WorkflowState_save(mark_started(mem, stage), now)
              /\ mem' = disk'.doc
              /\ pc' = IF pc = "loop" THEN "exec" ELSE "exec1"
              /\ UNCHANGED <<idx, exec_dir, report>>
    /\ UNCHANGED <<now, dry_run, out, marked>>
    /\ UNCHANGED phaseVars
    /\ UNCHANGED <<runVars, auxVars>>

\* a stage loop that records the failure of a stage and goes on to the next
ExecuteStageEnd_goon(ok) ==
    /\ pc \in {"exec", "exec1"}
    /\ LET stage == WORKFLOW_STAGES[idx] IN
         /\ disk' = WorkflowState_save(IF ok THEN mark_completed(mem, stage)
                                             ELSE mark_failed(mem, stage, now), now)
         /\ mem' = disk'.doc
         /\ marked' = IF ok THEN Append1(marked, stage) ELSE marked
         /\ IF pc = "exec"
            THEN /\ pc' = "loop"
                 /\ idx' = idx + 1
                 /\ exec_dir' = detect_spec_dir(stage, exec_dir, mem')
                 /\ UNCHANGED report
            ELSE /\ Return(IF ok THEN 0 ELSE 1, IF ok THEN NULL ELSE stage,
                           IF ok THEN "ok" ELSE "stage")
                 /\ UNCHANGED <<idx, exec_dir>>
    /\ UNCHANGED <<now, dry_run, out>>
    /\ UNCHANGED phaseVars
    /\ UNCHANGED <<runVars, auxVars>>

\* execute_stage after the adapter returned its ExecutionResult
ExecuteStageEnd(success) ==
    /\ pc \in {"exec", "exec1"}
    /\ LET stage == WORKFLOW_STAGES[idx] IN
         IF success
         THEN /\ disk' = WorkflowState_save(mark_completed(mem, stage), now)
              /\ mem' = disk'.doc
              /\ marked' = Append1(marked, stage)
              /\ IF pc = "exec"
                 THEN /\ pc' = "loop"
                      /\ idx' = idx + 1
                      /\ exec_dir' = detect_spec_dir(stage, exec_dir, mem')
                      /\ UNCHANGED report
                 ELSE /\ Return(0, NULL, "ok")
                      /\ UNCHANGED <<idx, exec_dir>>
         ELSE /\ disk' = WorkflowState_save(mark_failed(mem, stage, now), now)
              /\ mem' = disk'.doc
              /\ Return(1, stage, "stage")
              /\ UNCHANGED <<idx, exec_dir, marked>>
    /\ UNCHANGED <<now, dry_run, out>>
    /\ UNCHANGED phaseVars
    /\ UNCHANGED <<runVars, auxVars>>

\* _run_implementation; result is what the loop over the phases gives:
\* "ok", "failed" (a phase failed) or "raise" (TaskExecutor raised)
RunImplementation(result) ==
    /\ pc = "loop"
    /\ idx <= NumStages
    /\ WORKFLOW_STAGES[idx] = "implement"
    /\ IF dry_run \/ (exec_dir # NULL /\ result = "ok")
       THEN /\ pc' = "loop"
            /\ idx' = idx + 1
            /\ UNCHANGED report
       ELSE /\ Return(1, "implement", "stage")
            /\ UNCHANGED idx
    /\ UNCHANGED <<disk, now, mem, exec_dir, dry_run, out, marked>>
    /\ UNCHANGED phaseVars
    /\ UNCHANGED <<runVars, auxVars>>

\* the stage loop ran to its end
WorkflowDone ==
    /\ pc = "loop"
    /\ idx = NumStages + 1
    /\ Return(0, NULL, "ok")
    /\ UNCHANGED <<disk, now, mem, idx, exec_dir, dry_run, out, marked>>
    /\ UNCHANGED phaseVars
    /\ UNCHANGED <<runVars, auxVars>>

\* the process ends after it returned
Exit ==
    /\ pc = "returned"
    /\ pc' = "idle"
    /\ mem' = NoDoc
    /\ idx' = 0
    /\ exec_dir' = NULL
    /\ dry_run' = FALSE
    /\ report' = NoReport
    /\ UNCHANGED <<disk, now, out, marked>>
    /\ UNCHANGED phaseVars
    /\ UNCHANGED <<runVars, auxVars>>

\* the process is killed while it runs
Kill ==
    /\ pc \in {"loop", "single", "exec", "exec1"}
    /\ pc' = "idle"
    /\ mem' = NoDoc
    /\ idx' = 0
    /\ exec_dir' = NULL
    /\ dry_run' = FALSE
    /\ report' = NoReport
    /\ UNCHANGED <<disk, now, out, marked>>
    /\ UNCHANGED phaseVars
    /\ UNCHANGED <<runVars, auxVars>>

\* the process is killed inside WorkflowState.save of mark_started,
\* mark_completed or mark_failed, after open(state_path, 'w') emptied the
\* file and before json.dump wrote the document out
SaveInterrupted ==
    /\ ~dry_run
    /\ \/ pc \in {"exec", "exec1"}
       \/ /\ pc \in {"loop", "single"}
          /\ idx <= NumStages
          /\ pc = "loop" => WORKFLOW_STAGES[idx] # "implement"
    /\ disk' = [kind |-> "badjson", doc |-> NoDoc]
    /\ pc' = "idle"
    /\ mem' = NoDoc
    /\ idx' = 0
    /\ exec_dir' = NULL
    /\ dry_run' = FALSE
    /\ report' = NoReport
    /\ UNCHANGED <<now, out, marked>>
    /\ UNCHANGED phaseVars
    /\ UNCHANGED <<runVars, auxVars>>

Orchestrator ==
    \/ \E s \in StageArgs \cup {NULL}, d \in SpecDirs \cup {NULL},
          r \in Requirements, dry \in BOOLEAN : MainAuto(s, d, r, dry)
    \/ \E d \in SpecDirs \cup {NULL}, dry \in BOOLEAN : MainResume(d, dry)
    \/ \E d \in SpecDirs, dry \in BOOLEAN : MainReanalyze(d, dry)
    \/ ExecuteStageBegin
    \/ \E success \in BOOLEAN : ExecuteStageEnd(success)
    \/ \E result \in {"ok", "failed", "raise"} : RunImplementation(result)
    \/ WorkflowDone
    \/ Exit
    \/ Kill

(***************************************************************************)
(* The task scheduler, vibe_task.py TaskExecutor                           *)
(***************************************************************************)
\* the task records a task document can parse to: task T<i> is the i-th
\* task line, with its checkbox, its [P] marker and the phase of the last
\* phase header above it
TaskFlags == [is_parallel : BOOLEAN, is_completed : BOOLEAN, phase : 1..MaxPhase]

TaskDocs ==
    UNION {{[i \in 1..n |-> [task_id |-> i,
                             is_parallel |-> f[i].is_parallel,
                             is_completed |-> f[i].is_completed,
                             phase |-> f[i].phase]] : f \in [1..n -> TaskFlags]}
           : n \in 1..MaxTasks}

\* get_tasks_by_phase / TaskExecutor.get_phase_tasks
get_phase_tasks(phase) == SelectSeq(tasks, LAMBDA t : t.phase = phase)

\* TaskExecutor.get_task
get_task(task_id) == tasks[CHOOSE i \in 1..Len(tasks) : tasks[i].task_id = task_id]

TaskIdsOf(ts) == [i \in 1..Len(ts) |-> ts[i].task_id]

\* a status file named after the phase of the task
status_file_by_phase(task_id) == get_task(task_id).phase

\* _save_task_status: the file is status_dir / "<task_id>.json"
status_file(task_id) == task_id

\* execute_phase up to the first task: the phase's incomplete tasks are
\* split into sequential_tasks and parallel_tasks
ExecutePhaseBegin(phase, mp, dry) ==
    /\ ppc = "idle"
    /\ max_parallel' = mp
    /\ dry_run' = dry
    /\ LET ts == get_phase_tasks(phase)
           parallel_tasks == SelectSeq(ts, LAMBDA t : t.is_parallel /\ ~t.is_completed)
           sequential_tasks == SelectSeq(ts, LAMBDA t : ~t.is_parallel /\ ~t.is_completed)
       IN  IF Len(ts) = 0
           THEN \* "No tasks found in Phase"
                /\ ppc' = "done"
                /\ phase_result' = "true"
                /\ UNCHANGED <<seq_queue, pending>>
           ELSE /\ ppc' = "seq"
                /\ seq_queue' = TaskIdsOf(sequential_tasks)
                /\ pending' = SeqSet(TaskIdsOf(parallel_tasks))
                /\ UNCHANGED phase_result
    /\ UNCHANGED <<tasks, running, invoked, task_result, status_files>>
    /\ UNCHANGED <<disk, now, pc, mem, idx, exec_dir, report, out, marked>>
    /\ UNCHANGED <<runVars, auxVars>>

\* execute_task up to the call of the adapter, for the next sequential task;
\* a dry run prints the command and returns True
SeqStart ==
    /\ ppc = "seq"
    /\ running = {}
    /\ Len(seq_queue) > 0
    /\ LET t == Head(seq_queue) IN
         IF get_task(t).is_completed \/ dry_run
         THEN /\ task_result' = [task_result EXCEPT ![t] = "true"]
              /\ seq_queue' = Tail(seq_queue)
              /\ UNCHANGED <<running, invoked>>
         ELSE /\ running' = {t}
              /\ invoked' = Append(invoked, t)
              /\ UNCHANGED <<task_result, seq_queue>>
    /\ UNCHANGED <<tasks, max_parallel, ppc, pending, status_files, phase_result>>
    /\ UNCHANGED storeVars
    /\ printed' = IF dry_run THEN space_join(argv) ELSE printed
    /\ UNCHANGED <<timeout_minutes, exec_result, exit_status, argv, auxVars, child>>

\* a loop that goes on after a failed task
SeqVerdict_goon(success) == "continue"

\* what the loop over sequential_tasks does with the verdict of a task
SeqVerdict(success) == IF success THEN "continue" ELSE "return"

\* the agent of the sequential task exits: _save_task_status writes the
\* status record (io_ok = FALSE: the write raises), then the loop goes on
\* or execute_phase returns False
SeqFinish(exit_code, io_ok) ==
    /\ ppc = "seq"
    /\ running # {}
    /\ LET t == Head(seq_queue) IN
         IF ~io_ok
         THEN /\ task_result' = [task_result EXCEPT ![t] = "raised"]
              /\ ppc' = "done"
              /\ phase_result' = "raised"
              /\ UNCHANGED <<status_files, seq_queue>>
         ELSE /\ status_files' = [status_files EXCEPT ![status_file(t)] = exit_code]
              /\ task_result' = [task_result EXCEPT ![t] =
                                    IF exit_code = 0 THEN "true" ELSE "false"]
              /\ IF SeqVerdict(exit_code = 0) = "continue"
                 THEN /\ seq_queue' = Tail(seq_queue)
                      /\ UNCHANGED <<ppc, phase_result>>
                 ELSE /\ ppc' = "done"
                      /\ phase_result' = "false"
                      /\ UNCHANGED seq_queue
    /\ running' = {}
    /\ UNCHANGED <<tasks, max_parallel, pending, invoked>>
    /\ UNCHANGED storeVars
    /\ UNCHANGED <<runVars, auxVars>>

\* a pool that is created before the loop over sequential_tasks has ended
SubmitParallel_early ==
    /\ ppc = "seq"
    /\ running = {}
    /\ pending # {}
    /\ ppc' = "par"
    /\ UNCHANGED <<tasks, max_parallel, seq_queue, pending, running, invoked,
                   task_result, status_files, phase_result>>
    /\ UNCHANGED storeVars
    /\ UNCHANGED <<runVars, auxVars>>

\* the sequential tasks are done: the parallel tasks are submitted to a
\* ThreadPoolExecutor(max_workers=max_parallel), or there is none
SubmitParallel ==
    /\ ppc = "seq"
    /\ running = {}
    /\ Len(seq_queue) = 0
    /\ IF pending = {}
       THEN /\ ppc' = "done"
            /\ phase_result' = "true"
       ELSE /\ ppc' = "par"
            /\ UNCHANGED phase_result
    /\ UNCHANGED <<tasks, max_parallel, seq_queue, pending, running, invoked,
                   task_result, status_files>>
    /\ UNCHANGED storeVars
    /\ UNCHANGED <<runVars, auxVars>>

\* a pool that starts every submitted task at once, whatever max_workers is
ParStart_unbounded(t) ==
    /\ ppc = "par"
    /\ t \in pending
    /\ pending' = pending \ {t}
    /\ IF get_task(t).is_completed \/ dry_run
       THEN /\ task_result' = [task_result EXCEPT ![t] = "true"]
            /\ UNCHANGED <<running, invoked>>
       ELSE /\ running' = running \cup {t}
            /\ invoked' = Append(invoked, t)
            /\ UNCHANGED task_result
    /\ UNCHANGED <<tasks, max_parallel, ppc, seq_queue, status_files, phase_result>>
    /\ UNCHANGED storeVars
    /\ printed' = IF dry_run THEN space_join(argv) ELSE printed
    /\ UNCHANGED <<timeout_minutes, exec_result, exit_status, argv, auxVars, child>>

\* a free worker of the pool takes a submitted task and runs execute_task
ParStart(t) ==
    /\ ppc = "par"
    /\ t \in pending
    /\ Cardinality(running) < max_parallel
    /\ pending' = pending \ {t}
    /\ IF get_task(t).is_completed \/ dry_run
       THEN /\ task_result' = [task_result EXCEPT ![t] = "true"]
            /\ UNCHANGED <<running, invoked>>
       ELSE /\ running' = running \cup {t}
            /\ invoked' = Append(invoked, t)
            /\ UNCHANGED task_result
    /\ UNCHANGED <<tasks, max_parallel, ppc, seq_queue, status_files, phase_result>>
    /\ UNCHANGED storeVars
    /\ printed' = IF dry_run THEN space_join(argv) ELSE printed
    /\ UNCHANGED <<timeout_minutes, exec_result, exit_status, argv, auxVars, child>>

\* the agent of a parallel task exits and its worker finishes execute_task
ParFinish(t, exit_code, io_ok) ==
    /\ ppc = "par"
    /\ t \in running
    /\ running' = running \ {t}
    /\ IF ~io_ok
       THEN /\ task_result' = [task_result EXCEPT ![t] = "raised"]
            /\ UNCHANGED status_files
       ELSE /\ status_files' = [status_files EXCEPT ![status_file(t)] = exit_code]
            /\ task_result' = [task_result EXCEPT ![t] =
                                  IF exit_code = 0 THEN "true" ELSE "false"]
    /\ UNCHANGED <<tasks, max_parallel, ppc, seq_queue, pending, invoked, phase_result>>
    /\ UNCHANGED storeVars
    /\ UNCHANGED <<runVars, auxVars>>

\* a join that returns as soon as no worker is busy, dropping the tasks
\* that were not started yet
ParJoin_early ==
    /\ ppc = "par"
    /\ running = {}
    /\ ppc' = "done"
    /\ phase_result' =
         IF \E i \in 1..Len(tasks) :
                /\ tasks[i].is_parallel
                /\ task_result[tasks[i].task_id] \in {"false", "raised"}
         THEN "false" ELSE "true"
    /\ UNCHANGED <<tasks, max_parallel, seq_queue, pending, running, invoked,
                   task_result, status_files>>
    /\ UNCHANGED storeVars
    /\ UNCHANGED <<runVars, auxVars>>

\* as_completed has yielded every future and the pool has shut down
ParJoin ==
    /\ ppc = "par"
    /\ pending = {}
    /\ running = {}
    /\ ppc' = "done"
    /\ phase_result' =
         IF \E i \in 1..Len(tasks) :
                /\ tasks[i].is_parallel
                /\ task_result[tasks[i].task_id] \in {"false", "raised"}
         THEN "false" ELSE "true"
    /\ UNCHANGED <<tasks, max_parallel, seq_queue, pending, running, invoked,
                   task_result, status_files>>
    /\ UNCHANGED storeVars
    /\ UNCHANGED <<runVars, auxVars>>

(***************************************************************************)
(* The execution runner, adapters/base.py AgentAdapter.execute             *)
(***************************************************************************)
\* what happens to the child process: it cannot be spawned because the
\* executable is missing (FileNotFoundError) or for another reason (any
\* other exception of subprocess.run), or it runs for some seconds and then
\* exits with a code
ChildSeconds == {59, 60, 61, 120, 121}

Children ==
    [kind : {"missing", "oserror"}, seconds : {0}, code : {0}]
        \cup [kind : {"runs"}, seconds : ChildSeconds, code : {0, 1}]

\* a runner that compares the seconds the child ran with the minutes of the
\* configuration
execute_minutes(c, minutes, dry, ch) ==
    LET cmd_str == shlex_join(c)
        Result(code, err, spawned) ==
            [exit_code |-> code, stderr |-> err, spawned |-> spawned, command |-> cmd_str]
    IN  CASE dry -> Result(0, Stderr("none", 0, FALSE), FALSE)
          [] ~dry /\ ch.kind = "missing" -> Result(127, Stderr("not_found", 0, TRUE), FALSE)
          [] ~dry /\ ch.kind = "oserror" -> Result(1, Stderr("error", 0, FALSE), FALSE)
          [] ~dry /\ ch.kind = "runs" /\ ch.seconds > minutes ->
                Result(124, Stderr("timed_out", minutes, FALSE), TRUE)
          [] OTHER -> Result(ch.code, Stderr("child", 0, FALSE), TRUE)

\* AgentAdapter.execute(context, config, permissions, log_file, dry_run):
\* c is what build_command gives; a dry run returns before subprocess.run
execute(c, minutes, dry, ch) ==
    LET cmd_str == shlex_join(c)
        Result(code, err, spawned) ==
            [exit_code |-> code, stderr |-> err, spawned |-> spawned, command |-> cmd_str]
    IN  CASE dry -> Result(0, Stderr("none", 0, FALSE), FALSE)
          [] ~dry /\ ch.kind = "missing" -> Result(127, Stderr("not_found", 0, TRUE), FALSE)
          [] ~dry /\ ch.kind = "oserror" -> Result(1, Stderr("error", 0, FALSE), FALSE)
          [] ~dry /\ ch.kind = "runs" /\ ch.seconds > minutes * 60 ->
                Result(124, Stderr("timed_out", minutes, FALSE), TRUE)
          [] OTHER -> Result(ch.code, Stderr("child", 0, FALSE), TRUE)

\* ExecutionResult.success
success(r) == r.exit_code = 0

\* a caller runs adapter.execute with its dry_run argument
RunnerExecute(dry, minutes, ch) ==
    /\ ppc = "idle"
    /\ dry_run' = dry
    /\ timeout_minutes' = minutes
    /\ exec_result' = execute(argv, minutes, dry, ch)
    /\ child' = IF dry THEN NoChild ELSE ch
    /\ ppc' = "called"
    /\ UNCHANGED <<tasks, max_parallel, seq_queue, pending, running, invoked,
                   task_result, status_files, phase_result>>
    /\ UNCHANGED <<disk, now, pc, mem, idx, exec_dir, report, out, marked>>
    /\ UNCHANGED <<exit_status, argv, auxVars, printed>>

(***************************************************************************)
(* vibe_task.py main: one run with --task or with --phase                  *)
(***************************************************************************)
\* an execute_task without the test of task.is_completed
ExecuteTaskBegin_noskip(task_id, dry, minutes) ==
    /\ ppc = "idle"
    /\ dry_run' = dry
    /\ timeout_minutes' = minutes
    /\ printed' = IF task_id <= Len(tasks) /\ dry
                THEN space_join(argv) ELSE printed
    /\ IF task_id > Len(tasks)
       THEN /\ task_result' = [task_result EXCEPT ![task_id] = "false"]
            /\ ppc' = "done"
            /\ UNCHANGED <<running, invoked>>
       ELSE IF dry
       THEN /\ task_result' = [task_result EXCEPT ![task_id] = "true"]
            /\ ppc' = "done"
            /\ UNCHANGED <<running, invoked>>
       ELSE /\ running' = {task_id}
            /\ invoked' = Append(invoked, task_id)
            /\ ppc' = "task"
            /\ UNCHANGED task_result
    /\ UNCHANGED <<tasks, max_parallel, seq_queue, pending, status_files, phase_result>>
    /\ UNCHANGED <<disk, now, pc, mem, idx, exec_dir, report, out, marked>>
    /\ UNCHANGED <<exec_result, exit_status, argv, auxVars, child>>

\* main --task ID: execute_task up to the call of the adapter
ExecuteTaskBegin(task_id, dry, minutes) ==
    /\ ppc = "idle"
    /\ dry_run' = dry
    /\ timeout_minutes' = minutes
    /\ printed' = IF task_id <= Len(tasks) /\ ~get_task(task_id).is_completed /\ dry
                THEN space_join(argv) ELSE printed
    /\ IF task_id > Len(tasks)
       THEN \* "Task not found in tasks.md"
            /\ task_result' = [task_result EXCEPT ![task_id] = "false"]
            /\ ppc' = "done"
            /\ UNCHANGED <<running, invoked>>
       ELSE IF get_task(task_id).is_completed \/ dry
       THEN /\ task_result' = [task_result EXCEPT ![task_id] = "true"]
            /\ ppc' = "done"
            /\ UNCHANGED <<running, invoked>>
       ELSE /\ running' = {task_id}
            /\ invoked' = Append(invoked, task_id)
            /\ ppc' = "task"
            /\ UNCHANGED task_result
    /\ UNCHANGED <<tasks, max_parallel, seq_queue, pending, status_files, phase_result>>
    /\ UNCHANGED <<disk, now, pc, mem, idx, exec_dir, report, out, marked>>
    /\ UNCHANGED <<exec_result, exit_status, argv, auxVars, child>>

\* the adapter returns its ExecutionResult, _save_task_status writes the
\* status record (io_ok = FALSE: the write raises) and execute_task returns
ExecuteTaskEnd(ch, io_ok) ==
    /\ ppc = "task"
    /\ LET t == CHOOSE u \in running : TRUE
           r == execute(argv, timeout_minutes, FALSE, ch)
       IN  /\ exec_result' = r
           /\ child' = ch
           /\ IF ~io_ok
              THEN /\ task_result' = [task_result EXCEPT ![t] = "raised"]
                   /\ UNCHANGED status_files
              ELSE /\ status_files' = [status_files EXCEPT ![status_file(t)] = r.exit_code]
                   /\ task_result' = [task_result EXCEPT ![t] =
                                         IF success(r) THEN "true" ELSE "false"]
    /\ running' = {}
    /\ ppc' = "done"
    /\ UNCHANGED <<tasks, max_parallel, seq_queue, pending, invoked, phase_result>>
    /\ UNCHANGED storeVars
    /\ UNCHANGED <<timeout_minutes, exit_status, argv, auxVars, printed>>

\* main's local variable success once execute_task or execute_phase returned
RunSuccess ==
    IF phase_result # "none" THEN phase_result = "true"
    ELSE \E t \in TaskNums : task_result[t] = "true"

\* a main that hands the exit code of the failed run to the shell
MainReturn_propagate ==
    /\ ppc = "done"
    /\ ppc' = "exited"
    /\ exit_status' = IF RunSuccess THEN 0
                      ELSE IF exec_result.exit_code \in {124, 127}
                           THEN exec_result.exit_code ELSE 1
    /\ UNCHANGED <<tasks, max_parallel, seq_queue, pending, running, invoked,
                   task_result, status_files, phase_result>>
    /\ UNCHANGED storeVars
    /\ UNCHANGED <<timeout_minutes, exec_result, argv, auxVars, printed, child>>

\* main returns: 0 if success else 1, and 1 after an exception
MainReturn ==
    /\ ppc = "done"
    /\ ppc' = "exited"
    /\ exit_status' = IF RunSuccess THEN 0 ELSE 1
    /\ UNCHANGED <<tasks, max_parallel, seq_queue, pending, running, invoked,
                   task_result, status_files, phase_result>>
    /\ UNCHANGED storeVars
    /\ UNCHANGED <<timeout_minutes, exec_result, argv, auxVars, printed, child>>

\* the user interrupts while the main thread waits for an agent process:
\* subprocess.run kills the child, KeyboardInterrupt reaches main
Interrupt ==
    /\ ppc \in {"task", "seq"}
    /\ running # {}
    /\ running' = {}
    /\ ppc' = "exited"
    /\ exit_status' = 130
    /\ UNCHANGED <<tasks, max_parallel, seq_queue, pending, invoked,
                   task_result, status_files, phase_result>>
    /\ UNCHANGED storeVars
    /\ UNCHANGED <<timeout_minutes, exec_result, argv, auxVars, printed, child>>

InitPhase ==
    /\ tasks \in TaskDocs
    /\ PhaseIdle
    /\ AuxIdle
    /\ RunIdle
    /\ disk = Absent
    /\ now = 0
    /\ pc = "idle"
    /\ mem = NoDoc
    /\ idx = 0
    /\ exec_dir = "d1"
    /\ dry_run = FALSE
    /\ report = NoReport
    /\ out = NoOut
    /\ marked = <<>>

NextPhase ==
    \/ \E phase \in 1..MaxPhase, mp \in 1..MaxWorkers, dry \in BOOLEAN :
          ExecutePhaseBegin(phase, mp, dry)
    \/ SeqStart
    \/ \E c \in ExitCodes, io_ok \in BOOLEAN : SeqFinish(c, io_ok)
    \/ SubmitParallel
    \/ \E t \in TaskNums : ParStart(t)
    \/ \E t \in TaskNums, c \in ExitCodes, io_ok \in BOOLEAN : ParFinish(t, c, io_ok)
    \/ ParJoin

\* one execute_phase call on a parsed task document
SpecPhase == InitPhase /\ [][NextPhase]_vars

(***************************************************************************)
(* The implement stage, vibe_workflow.py _run_implementation: the loop     *)
(* over the phases of the task document                                    *)
(***************************************************************************)
\* "while phase <= 20:  # Safety limit"
PhaseLimit == 20

notImpl == <<storeVars, runVars, parseVars, promptVars, configVars, releaseVars,
             workVars, registryVars, requests>>

\* the head of the loop: the loop ends above the limit and at the first phase
\* that has no tasks
loop_test(phase) ==
    IF phase > PhaseLimit \/ Len(get_phase_tasks(phase)) = 0
    THEN "break"
    ELSE "execute"

\* _run_implementation of a run that is not a dry run and knows its spec_dir:
\* the TaskExecutor is built (it parses the task document) and phase = 1
RunImplementationBegin(mp) ==
    /\ impl.pc = "idle"
    /\ ppc = "idle"
    /\ impl' = [impl EXCEPT !.pc = "loop", !.phase = 1]
    /\ max_parallel' = mp
    /\ UNCHANGED <<tasks, ppc, seq_queue, pending, running, invoked, task_result,
                   status_files, phase_result>>
    /\ UNCHANGED notImpl

ImplementationLoop ==
    /\ impl.pc = "loop"
    /\ impl' =
         IF loop_test(impl.phase) = "break"
         THEN [impl EXCEPT !.pc = "done", !.result = "true"]
         ELSE [impl EXCEPT !.pc = "phase", !.visited = Append(impl.visited, impl.phase)]
    /\ UNCHANGED phaseVars
    /\ UNCHANGED notImpl

\* executor.execute_phase(phase) is called
ImplementationPhase ==
    /\ impl.pc = "phase"
    /\ ExecutePhaseBegin(impl.phase, max_parallel, FALSE)

\* execute_phase has returned: False ends the loop, an exception leaves
\* _run_implementation, True goes on to the next phase
ImplementationPhaseEnd ==
    /\ impl.pc = "phase"
    /\ ppc = "done"
    /\ impl' =
         IF phase_result = "true"
         THEN [impl EXCEPT !.pc = "loop", !.phase = impl.phase + 1]
         ELSE [impl EXCEPT !.pc = "done", !.result = phase_result]
    /\ ppc' = "idle"
    /\ phase_result' = "none"
    /\ seq_queue' = <<>>
    /\ pending' = {}
    /\ UNCHANGED <<tasks, max_parallel, running, invoked, task_result, status_files>>
    /\ UNCHANGED notImpl

NextImplementation ==
    \/ \E mp \in 1..MaxWorkers : RunImplementationBegin(mp)
    \/ ImplementationLoop
    \/ ImplementationPhase
    \/ ImplementationPhaseEnd
    \/ SeqStart
    \/ \E c \in ExitCodes, io_ok \in BOOLEAN : SeqFinish(c, io_ok)
    \/ SubmitParallel
    \/ \E t \in TaskNums : ParStart(t)
    \/ \E t \in TaskNums, c \in ExitCodes, io_ok \in BOOLEAN : ParFinish(t, c, io_ok)
    \/ ParJoin

\* one _run_implementation call on a parsed task document
SpecImplementation == InitPhase /\ [][NextImplementation]_vars

TimeoutMinutes == 1..MaxTimeoutMinutes

NextTask ==
    \/ NextPhase
    \/ \E t \in TaskNums, dry \in BOOLEAN, m \in TimeoutMinutes : ExecuteTaskBegin(t, dry, m)
    \/ \E ch \in Children, io_ok \in BOOLEAN : ExecuteTaskEnd(ch, io_ok)
    \/ MainReturn
    \/ Interrupt

\* one incomplete task and any command
InitRunner ==
    /\ tasks = <<[task_id |-> 1, is_parallel |-> FALSE, is_completed |-> FALSE, phase |-> 1]>>
    /\ PhaseIdle
    /\ AuxIdle
    /\ timeout_minutes = 1
    /\ exec_result = NoResult
    /\ exit_status = NoCode
    /\ argv \in ArgVectors
    /\ printed = NotPrinted
    /\ child = NoChild
    /\ disk = Absent
    /\ now = 0
    /\ pc = "idle"
    /\ mem = NoDoc
    /\ idx = 0
    /\ exec_dir = "d1"
    /\ dry_run = FALSE
    /\ report = NoReport
    /\ out = NoOut
    /\ marked = <<>>

NextRunner ==
    \/ \E dry \in BOOLEAN, m \in TimeoutMinutes, ch \in Children : RunnerExecute(dry, m, ch)
    \/ \E dry \in BOOLEAN, m \in TimeoutMinutes : ExecuteTaskBegin(1, dry, m)
    \/ \E ch \in Children, io_ok \in BOOLEAN : ExecuteTaskEnd(ch, io_ok)
    \/ MainReturn
    \/ Interrupt

\* the execution runner, called as such or by execute_task, on any command
SpecRunner == InitRunner /\ [][NextRunner]_vars

\* a task document with a single phase
InitTask ==
    /\ InitPhase
    /\ \A i \in 1..Len(tasks) : tasks[i].phase = 1

\* one run of vibe_task.py on a parsed task document
SpecTask == InitTask /\ [][NextTask]_vars

(***************************************************************************)
(* parse_tasks_file (vibe_task.py)                                         *)
(***************************************************************************)
\* a header that never lowers the phase
header_phase_max(current, number) == IF number > current THEN number ELSE current

\* current_phase = int(phase_match.group(1))
header_phase(current, number) == number

\* an id seen before keeps the checkbox of its first line
put_task_merge(map, task) ==
    LET earlier == map[task.task_id]
    IN  [map EXCEPT ![task.task_id] =
            IF earlier = NoTask THEN task
            ELSE [task EXCEPT !.is_completed = earlier.is_completed]]

\* tasks[task.task_id] = task
put_task(map, task) == [map EXCEPT ![task.task_id] = task]

\* one turn of the loop over the lines of the file
ParseNextLine ==
    /\ parse_pc = "scanning"
    /\ line_no < Len(tasks_file)
    /\ LET line == tasks_file[line_no + 1]
           task == parse_line(line, current_phase)
       IN  /\ line_no' = line_no + 1
           /\ IF line.kind = "header"
              THEN /\ current_phase' = header_phase(current_phase, line.number)
                   /\ UNCHANGED <<parsed_tasks, scanned>>
              ELSE IF task # NoTask
              THEN /\ parsed_tasks' = put_task(parsed_tasks, task)
                   /\ scanned' = Append(scanned, task)
                   /\ UNCHANGED current_phase
              ELSE UNCHANGED <<current_phase, parsed_tasks, scanned>>
    /\ UNCHANGED <<tasks_file, parse_pc>>
    /\ UNCHANGED <<storeVars, phaseVars, runVars, promptVars, configVars, releaseVars, workVars, lateVars>>

\* the file is exhausted: return tasks
ParseReturn ==
    /\ parse_pc = "scanning"
    /\ line_no = Len(tasks_file)
    /\ parse_pc' = "returned"
    /\ UNCHANGED <<tasks_file, line_no, current_phase, parsed_tasks, scanned>>
    /\ UNCHANGED <<storeVars, phaseVars, runVars, promptVars, configVars, releaseVars, workVars, lateVars>>

InitParse ==
    /\ tasks = <<>>
    /\ PhaseIdle
    /\ RunIdle
    /\ tasks_file \in Documents
    /\ parse_pc = "scanning"
    /\ line_no = 0
    /\ current_phase = NoPhase
    /\ parsed_tasks = [id \in DocTaskIds |-> NoTask]
    /\ scanned = <<>>
    /\ PromptIdle
    /\ ConfigIdle
    /\ ReleaseIdle
    /\ WorkIdle
    /\ LateIdle
    /\ disk = Absent
    /\ now = 0
    /\ pc = "idle"
    /\ mem = NoDoc
    /\ idx = 0
    /\ exec_dir = NULL
    /\ dry_run = FALSE
    /\ report = NoReport
    /\ out = NoOut
    /\ marked = <<>>

NextParse ==
    \/ ParseNextLine
    \/ ParseReturn

\* one call of parse_tasks_file on a document
SpecParse == InitParse /\ [][NextParse]_vars

(***************************************************************************)
(* Building the command of a stage or a task                               *)
(***************************************************************************)
\* cmd = self.adapter.build_command(context, self.agent_config, self.permissions)
BuildCommand ==
    /\ context # NoContext
    /\ built = NotBuilt
    /\ built' = build_command(context, permissions)
    /\ UNCHANGED <<context, permissions>>
    /\ UNCHANGED <<storeVars, phaseVars, runVars, parseVars, configVars, releaseVars, workVars, lateVars>>

\* the executor is used again for the next stage or task
NextContext(ctx) ==
    /\ built # NotBuilt
    /\ context' = ctx
    /\ built' = NotBuilt
    /\ UNCHANGED permissions
    /\ UNCHANGED <<storeVars, phaseVars, runVars, parseVars, configVars, releaseVars, workVars, lateVars>>

InitPrompt ==
    /\ tasks = <<>>
    /\ PhaseIdle
    /\ RunIdle
    /\ ParseIdle
    /\ context \in Contexts
    /\ permissions \in Permissions
    /\ built = NotBuilt
    /\ ConfigIdle
    /\ ReleaseIdle
    /\ WorkIdle
    /\ LateIdle
    /\ disk = Absent
    /\ now = 0
    /\ pc = "idle"
    /\ mem = NoDoc
    /\ idx = 0
    /\ exec_dir = NULL
    /\ dry_run = FALSE
    /\ report = NoReport
    /\ out = NoOut
    /\ marked = <<>>

NextPrompt ==
    \/ BuildCommand
    \/ \E ctx \in Contexts : NextContext(ctx)

\* the commands an executor builds for its stages and tasks
SpecPrompt == InitPrompt /\ [][NextPrompt]_vars

(***************************************************************************)
(* Configuration: config-manager.py and the loading of it by the mains     *)
(***************************************************************************)
\* config-manager.py set <key> <value>, for a key of type int
ConfigSet(key, value) ==
    /\ cfg_pc = "idle"
    /\ IF validate_value(key, value)
       THEN /\ config_file' = [present |-> TRUE,
                               data |-> [load_config(config_file) EXCEPT ![key] = value]]
            /\ cfg_exit' = 0
       ELSE /\ cfg_exit' = 1
            /\ UNCHANGED config_file
    /\ UNCHANGED cfg_pc
    /\ UNCHANGED <<storeVars, phaseVars, runVars, parseVars, promptVars, releaseVars, workVars, lateVars>>

\* the file is written by hand or by another tool
ConfigWrite(file) ==
    /\ cfg_pc = "idle"
    /\ config_file' = file
    /\ UNCHANGED <<cfg_pc, cfg_exit>>
    /\ UNCHANGED <<storeVars, phaseVars, runVars, parseVars, promptVars, releaseVars, workVars, lateVars>>

\* main of vibe_task.py up to the executor: TaskConfig.load, the command
\* line overrides, AgentConfig(timeout_minutes=config.timeout_minutes)
LoadConfig(parallel) ==
    /\ cfg_pc = "idle"
    /\ ppc = "idle"
    /\ LET config == TaskConfig_load(config_file)
       IN  /\ max_parallel' = IF parallel # 0 THEN parallel ELSE config.max_parallel
           /\ timeout_minutes' = config.timeout_minutes
    /\ cfg_pc' = "loaded"
    /\ UNCHANGED <<config_file, cfg_exit>>
    /\ UNCHANGED <<tasks, ppc, seq_queue, pending, running, invoked,
                   task_result, status_files, phase_result>>
    /\ UNCHANGED <<exec_result, exit_status, argv, printed, child>>
    /\ UNCHANGED <<storeVars, parseVars, promptVars, releaseVars, workVars, lateVars>>

\* a sequential task and a parallel task of phase 1, a configuration file
InitConfig ==
    /\ tasks = <<[task_id |-> 1, is_parallel |-> FALSE, is_completed |-> FALSE, phase |-> 1],
                 [task_id |-> 2, is_parallel |-> TRUE, is_completed |-> FALSE, phase |-> 1]>>
    /\ PhaseIdle
    /\ RunIdle
    /\ ParseIdle
    /\ PromptIdle
    /\ config_file = NoConfigFile
    /\ cfg_pc = "idle"
    /\ cfg_exit = NoCode
    /\ ReleaseIdle
    /\ WorkIdle
    /\ LateIdle
    /\ disk = Absent
    /\ now = 0
    /\ pc = "idle"
    /\ mem = NoDoc
    /\ idx = 0
    /\ exec_dir = "d1"
    /\ dry_run = FALSE
    /\ report = NoReport
    /\ out = NoOut
    /\ marked = <<>>

NextConfig ==
    \/ \E key \in ConfigKeys : \E value \in ConfigValues(key) : ConfigSet(key, value)
    \/ \E file \in ConfigFiles : ConfigWrite(file)
    \/ \E parallel \in ParallelArgs : LoadConfig(parallel)
    \/ cfg_pc = "loaded" /\ max_parallel >= 1 /\ ExecutePhaseBegin(1, max_parallel, FALSE)
    \/ cfg_pc = "loaded" /\ ExecuteTaskBegin(1, FALSE, timeout_minutes)
    \/ SeqStart
    \/ \E c \in ExitCodes, io_ok \in BOOLEAN : SeqFinish(c, io_ok)
    \/ SubmitParallel
    \/ \E t \in TaskNums : ParStart(t)
    \/ \E t \in TaskNums, c \in ExitCodes, io_ok \in BOOLEAN : ParFinish(t, c, io_ok)
    \/ ParJoin
    \/ \E ch \in Children, io_ok \in BOOLEAN : ExecuteTaskEnd(ch, io_ok)
    \/ MainReturn
    \/ Interrupt

\* the configuration file, its manager, and one run of vibe_task.py with it
SpecConfig == InitConfig /\ [][NextConfig]_vars

(***************************************************************************)
(* The release server: PackageService and the routes                       *)
(***************************************************************************)
notRelease == <<storeVars, phaseVars, runVars, parseVars, promptVars, configVars,
                workVars, lateVars>>

\* POST /upload, upload_package up to the read of the file: the listing and
\* the conflict test
UploadBegin(name, content, overwrite) ==
    /\ upload.pc = "idle"
    /\ rs_now < MaxUploads
    /\ IF ~overwrite /\ name \in list_packages(files)
       THEN /\ upload_resp' = 409
            /\ UNCHANGED upload
       ELSE /\ upload' = [pc |-> "read", name |-> name, content |-> content,
                          overwrite |-> overwrite]
            /\ UNCHANGED upload_resp
    /\ UNCHANGED <<files, rs_now, max_packages, cleanup, cleanups_due, cleanup_result>>
    /\ UNCHANGED notRelease

\* the content is read: empty is 400, otherwise storage.save_package
UploadSave ==
    /\ upload.pc = "read"
    /\ IF upload.content = EmptyContent
       THEN /\ upload_resp' = 400
            /\ upload' = NoUpload
            /\ UNCHANGED <<files, rs_now>>
       ELSE /\ files' = [files EXCEPT ![upload.name] =
                            [content |-> upload.content, mtime |-> rs_now + 1]]
            /\ rs_now' = rs_now + 1
            /\ upload' = [upload EXCEPT !.pc = "checksum"]
            /\ UNCHANGED upload_resp
    /\ UNCHANGED <<max_packages, cleanup, cleanups_due, cleanup_result>>
    /\ UNCHANGED notRelease

\* storage.save_checksum
UploadChecksum ==
    /\ upload.pc = "checksum"
    /\ files' = [files EXCEPT ![Sidecar(upload.name)] =
                    [content |-> hexdigest(upload.content), mtime |-> 0]]
    /\ upload' = [upload EXCEPT !.pc = "relist"]
    /\ UNCHANGED <<rs_now, max_packages, upload_resp, cleanup, cleanups_due,
                   cleanup_result>>
    /\ UNCHANGED notRelease

\* the second listing: the metadata is returned and the route adds the
\* cleanup to background_tasks, or the package is not listed and it is 500
UploadReturn ==
    /\ upload.pc = "relist"
    /\ IF upload.name \in list_packages(files)
       THEN /\ upload_resp' = 200
            /\ cleanups_due' = cleanups_due + 1
       ELSE /\ upload_resp' = 500
            /\ UNCHANGED cleanups_due
    /\ upload' = NoUpload
    /\ UNCHANGED <<files, rs_now, max_packages, cleanup, cleanup_result>>
    /\ UNCHANGED notRelease

\* DELETE /assets/{filename} of a file that exists (a missing one is 404 and
\* changes nothing): the file goes, its checksum file stays
DeletePackage(name) ==
    /\ files[name] # NoFile
    /\ files' = [files EXCEPT ![name] = NoFile]
    /\ UNCHANGED <<rs_now, max_packages, upload, upload_resp, cleanup, cleanups_due,
                   cleanup_result>>
    /\ UNCHANGED notRelease

\* cleanup_old_packages up to the loop: the listing, sorted, and its tail
CleanupList ==
    /\ cleanup.pc = "idle"
    /\ cleanups_due > 0
    /\ cleanups_due' = cleanups_due - 1
    /\ LET packages == newest_first(files, list_packages(files))
       IN  IF Len(packages) <= max_packages
           THEN /\ cleanup_result' = 0
                /\ UNCHANGED cleanup
           ELSE /\ cleanup' = [pc |-> "deleting",
                               todo |-> SubSeq(packages, max_packages + 1, Len(packages)),
                               deleted |-> 0]
                /\ UNCHANGED cleanup_result
    /\ UNCHANGED <<files, rs_now, max_packages, upload, upload_resp>>
    /\ UNCHANGED notRelease

\* one turn of the loop: delete_package(pkg.name), a failure passed over
CleanupDelete ==
    /\ cleanup.pc = "deleting"
    /\ cleanup.todo # <<>>
    /\ LET name == Head(cleanup.todo)
       IN  IF files[name] = NoFile
           THEN /\ cleanup' = [cleanup EXCEPT !.todo = Tail(@)]
                /\ UNCHANGED files
           ELSE /\ files' = [files EXCEPT ![name] = NoFile]
                /\ cleanup' = [cleanup EXCEPT !.todo = Tail(@), !.deleted = @ + 1]
    /\ UNCHANGED <<rs_now, max_packages, upload, upload_resp, cleanups_due,
                   cleanup_result>>
    /\ UNCHANGED notRelease

\* return deleted_count
CleanupReturn ==
    /\ cleanup.pc = "deleting"
    /\ cleanup.todo = <<>>
    /\ cleanup_result' = cleanup.deleted
    /\ cleanup' = NoCleanup
    /\ UNCHANGED <<files, rs_now, max_packages, upload, upload_resp, cleanups_due>>
    /\ UNCHANGED notRelease

InitRelease ==
    /\ tasks = <<>>
    /\ PhaseIdle
    /\ RunIdle
    /\ ParseIdle
    /\ PromptIdle
    /\ ConfigIdle
    /\ WorkIdle
    /\ LateIdle
    /\ files = [n \in FileNames |-> NoFile]
    /\ rs_now = 0
    /\ max_packages \in 1..MaxRetained
    /\ upload = NoUpload
    /\ upload_resp = NoCode
    /\ cleanup = NoCleanup
    /\ cleanups_due = 0
    /\ cleanup_result = NoCode
    /\ disk = Absent
    /\ now = 0
    /\ pc = "idle"
    /\ mem = NoDoc
    /\ idx = 0
    /\ exec_dir = NULL
    /\ dry_run = FALSE
    /\ report = NoReport
    /\ out = NoOut
    /\ marked = <<>>

NextRelease ==
    \/ \E name \in UploadNames, content \in Contents, overwrite \in BOOLEAN :
          UploadBegin(name, content, overwrite)
    \/ UploadSave
    \/ UploadChecksum
    \/ UploadReturn
    \/ \E name \in UploadNames : DeletePackage(name)
    \/ CleanupList
    \/ CleanupDelete
    \/ CleanupReturn

\* the release server: an upload at a time, deletes, the background cleanup
SpecRelease == InitRelease /\ [][NextRelease]_vars

(***************************************************************************)
(* create_work_dir, one process a caller; every file system call is a step *)
(***************************************************************************)
notWork == <<storeVars, phaseVars, runVars, parseVars, promptVars, configVars,
             releaseVars, lateVars>>

\* the call: the base directory made if absent, the slug generated
CreateWorkDir(p, slug) ==
    /\ calls[p].pc = "idle"
    /\ calls' = [calls EXCEPT ![p] = [NoCall EXCEPT !.pc = "scan", !.slug = slug]]
    /\ UNCHANGED <<base_dir, latest_link>>
    /\ UNCHANGED notWork

\* the head of the retry loop and the scan for the next number
ScanNumbers(p) ==
    /\ calls[p].pc = "scan"
    /\ IF calls[p].attempt >= max_attempts
       THEN calls' = [calls EXCEPT ![p].pc = "raised", ![p].error = "RuntimeError"]
       ELSE calls' = [calls EXCEPT ![p].pc = "mkdir", ![p].num = next_num(base_dir)]
    /\ UNCHANGED <<base_dir, latest_link>>
    /\ UNCHANGED notWork

\* work_dir.mkdir(parents=True, exist_ok=False) and the subdirectories;
\* FileExistsError sends the call to its next attempt
MakeDir(p) ==
    /\ calls[p].pc = "mkdir"
    /\ LET work_dir == DirName(calls[p].num, calls[p].slug)
       IN  IF work_dir \in base_dir
           THEN /\ calls' = [calls EXCEPT ![p].pc = "scan", ![p].attempt = @ + 1]
                /\ UNCHANGED base_dir
           ELSE /\ base_dir' = base_dir \cup {work_dir}
                /\ calls' = [calls EXCEPT ![p].pc = "check",
                                          ![p].made = @ \cup {work_dir}]
    /\ UNCHANGED latest_link
    /\ UNCHANGED notWork

\* if latest_link.exists() or latest_link.is_symlink()
LinkCheck(p) ==
    /\ calls[p].pc = "check"
    /\ calls' = [calls EXCEPT ![p].pc = IF latest_link # NoLink THEN "unlink" ELSE "symlink"]
    /\ UNCHANGED <<base_dir, latest_link>>
    /\ UNCHANGED notWork

\* latest_link.unlink(): FileNotFoundError when the link is gone, which
\* nothing in the function catches
Unlink(p) ==
    /\ calls[p].pc = "unlink"
    /\ IF latest_link = NoLink
       THEN /\ calls' = [calls EXCEPT ![p].pc = "raised",
                                      ![p].error = "FileNotFoundError"]
            /\ UNCHANGED latest_link
       ELSE /\ latest_link' = NoLink
            /\ calls' = [calls EXCEPT ![p].pc = "symlink"]
    /\ UNCHANGED base_dir
    /\ UNCHANGED notWork

\* latest_link.symlink_to(dir_name) and return work_dir; FileExistsError
\* when the link is there again, caught by the handler of the retry loop
SymlinkTo(p) ==
    /\ calls[p].pc = "symlink"
    /\ LET work_dir == DirName(calls[p].num, calls[p].slug)
       IN  IF latest_link # NoLink
           THEN /\ calls' = [calls EXCEPT ![p].pc = "scan", ![p].attempt = @ + 1]
                /\ UNCHANGED latest_link
           ELSE /\ latest_link' = work_dir
                /\ calls' = [calls EXCEPT ![p].pc = "returned", ![p].result = work_dir]
    /\ UNCHANGED base_dir
    /\ UNCHANGED notWork

\* the base directory before the calls: empty, or left by an earlier call
InitWorkDir ==
    /\ tasks = <<>>
    /\ PhaseIdle
    /\ RunIdle
    /\ ParseIdle
    /\ PromptIdle
    /\ ConfigIdle
    /\ ReleaseIdle
    /\ LateIdle
    /\ base_dir \in {{}, {DirName(1, "s1")}}
    /\ latest_link \in {NoLink} \cup base_dir
    /\ calls = [p \in Procs |-> NoCall]
    /\ disk = Absent
    /\ now = 0
    /\ pc = "idle"
    /\ mem = NoDoc
    /\ idx = 0
    /\ exec_dir = NULL
    /\ dry_run = FALSE
    /\ report = NoReport
    /\ out = NoOut
    /\ marked = <<>>

NextWorkDir ==
    \/ \E p \in Procs, slug \in Slugs : CreateWorkDir(p, slug)
    \/ \E p \in Procs : ScanNumbers(p)
    \/ \E p \in Procs : MakeDir(p)
    \/ \E p \in Procs : LinkCheck(p)
    \/ \E p \in Procs : Unlink(p)
    \/ \E p \in Procs : SymlinkTo(p)

SpecWorkDir == InitWorkDir /\ [][NextWorkDir]_vars

(***************************************************************************)
(* The adapter registry (adapters/registry.py).  An instance is written    *)
(* as the name of its class; None is NULL.                                 *)
(***************************************************************************)
notRegistry == <<storeVars, phaseVars, runVars, parseVars, promptVars, configVars,
                 releaseVars, workVars, requests, impl>>

put_adapter(regmap, c) ==
    [n \in DOMAIN regmap \cup {c.name} |-> IF n = c.name THEN c ELSE regmap[n]]

register_always(regmap, adapter_class) == put_adapter(regmap, adapter_class)

\* register: the class is stored under the name of a temporary instance; any
\* Exception of the construction is swallowed
register(regmap, adapter_class) ==
    IF adapter_class.constructs THEN put_adapter(regmap, adapter_class) ELSE regmap

\* get: a new instance of the class registered under the name, or None
get(regmap, name) ==
    IF name \in DOMAIN regmap
    THEN IF regmap[name].constructs
         THEN [gave |-> regmap[name].cls, error |-> NULL]
         ELSE [gave |-> NULL, error |-> "Exception"]
    ELSE [gave |-> NULL, error |-> NULL]

Register(adapter_class) ==
    /\ adapters' = register(adapters, adapter_class)
    /\ reg_out' = [NoRegOut EXCEPT !.op = "register", !.arg = adapter_class.cls,
                                   !.gave = adapter_class.cls]
    /\ UNCHANGED <<default_adapter, notRegistry>>

Get(name) ==
    /\ reg_out' = [NoRegOut EXCEPT !.op = "get", !.arg = name,
                                   !.gave = get(adapters, name).gave,
                                   !.error = get(adapters, name).error]
    /\ UNCHANGED <<adapters, default_adapter, notRegistry>>

GetOrRaise(name) ==
    LET adapter == get(adapters, name)
    IN  /\ reg_out' =
            IF adapter.error # NULL
            THEN [NoRegOut EXCEPT !.op = "get_or_raise", !.arg = name,
                                  !.error = adapter.error]
            ELSE IF adapter.gave = NULL
            THEN [NoRegOut EXCEPT !.op = "get_or_raise", !.arg = name,
                                  !.error = "ValueError",
                                  !.available = DOMAIN adapters]
            ELSE [NoRegOut EXCEPT !.op = "get_or_raise", !.arg = name,
                                  !.gave = adapter.gave]
        /\ UNCHANGED <<adapters, default_adapter, notRegistry>>

GetDefault ==
    LET adapter == get(adapters, default_adapter)
    IN  /\ reg_out' =
            IF adapter.error # NULL
            THEN [NoRegOut EXCEPT !.op = "get_default", !.arg = default_adapter,
                                  !.error = adapter.error]
            ELSE [NoRegOut EXCEPT !.op = "get_default", !.arg = default_adapter,
                                  !.gave = IF adapter.gave = NULL
                                           THEN CopilotAdapter.cls
                                           ELSE adapter.gave]
        /\ UNCHANGED <<adapters, default_adapter, notRegistry>>

SetDefault(name) ==
    /\ IF name \notin DOMAIN adapters
       THEN /\ reg_out' = [NoRegOut EXCEPT !.op = "set_default", !.arg = name,
                                           !.error = "ValueError"]
            /\ UNCHANGED default_adapter
       ELSE /\ default_adapter' = name
            /\ reg_out' = [NoRegOut EXCEPT !.op = "set_default", !.arg = name]
    /\ UNCHANGED <<adapters, notRegistry>>

\* importing the module leaves the registry with CopilotAdapter registered
InitRegistry == Init

NextRegistry ==
    \/ \E c \in AdapterClasses : Register(c)
    \/ \E n \in AdapterNames : Get(n)
    \/ \E n \in AdapterNames : GetOrRaise(n)
    \/ GetDefault
    \/ \E n \in AdapterNames : SetDefault(n)

SpecRegistry == InitRegistry /\ [][NextRegistry]_vars

(***************************************************************************)
(* Upload requests served at once (release_server, upload_package): the    *)
(* requests run on one event loop and give way to one another at every     *)
(* await of the storage.  All are for the package named a, overwrite=False.*)
(***************************************************************************)
Reqs == 1..MaxRequests

UploadedName == <<"a">>

NoRequest == [pc |-> "idle", content |-> EmptyContent, resp |-> NoCode]

notUploads == <<storeVars, phaseVars, runVars, parseVars, promptVars, configVars,
                workVars, registryVars, impl, max_packages, upload, upload_resp,
                cleanup, cleanups_due, cleanup_result>>

\* "if any(p.name == file.filename for p in existing)"
conflict(existing) == UploadedName \in existing

\* POST /upload arrives: existing = await self.storage.list_packages() and
\* the conflict test
RequestListing(r, content) ==
    /\ requests[r].pc = "idle"
    /\ requests' = [requests EXCEPT ![r] =
                       IF conflict(list_packages(files))
                       THEN [pc |-> "done", content |-> content, resp |-> 409]
                       ELSE [pc |-> "read", content |-> content, resp |-> NoCode]]
    /\ UNCHANGED <<files, rs_now>>
    /\ UNCHANGED notUploads

\* await file.read(), then await storage.save_package: the file is written
\* whether or not it exists by now
RequestSave(r) ==
    /\ requests[r].pc = "read"
    /\ files' = [files EXCEPT ![UploadedName] =
                    [content |-> requests[r].content, mtime |-> rs_now + 1]]
    /\ rs_now' = rs_now + 1
    /\ requests' = [requests EXCEPT ![r].pc = "saved"]
    /\ UNCHANGED notUploads

\* await storage.save_checksum
RequestChecksum(r) ==
    /\ requests[r].pc = "saved"
    /\ files' = [files EXCEPT ![Sidecar(UploadedName)] =
                    [content |-> hexdigest(requests[r].content), mtime |-> 0]]
    /\ requests' = [requests EXCEPT ![r].pc = "relist"]
    /\ UNCHANGED rs_now
    /\ UNCHANGED notUploads

\* the second listing and the answer
RequestReturn(r) ==
    /\ requests[r].pc = "relist"
    /\ requests' = [requests EXCEPT ![r].pc = "done",
                                    ![r].resp = IF UploadedName \in list_packages(files)
                                                THEN 200 ELSE 500]
    /\ UNCHANGED <<files, rs_now>>
    /\ UNCHANGED notUploads

\* the storage is empty or holds the package with its checksum file
InitUploads ==
    /\ tasks = <<>>
    /\ PhaseIdle
    /\ RunIdle
    /\ ParseIdle
    /\ PromptIdle
    /\ ConfigIdle
    /\ WorkIdle
    /\ RegistryIdle
    /\ impl = NoImpl
    /\ requests = [r \in Reqs |-> NoRequest]
    /\ \E c \in {"none", "c1"} :
          files = [n \in FileNames |->
                      IF c = "none" THEN NoFile
                      ELSE IF n = UploadedName THEN [content |-> c, mtime |-> 0]
                      ELSE IF n = Sidecar(UploadedName)
                           THEN [content |-> hexdigest(c), mtime |-> 0]
                      ELSE NoFile]
    /\ rs_now = 0
    /\ max_packages = 1
    /\ upload = NoUpload
    /\ upload_resp = NoCode
    /\ cleanup = NoCleanup
    /\ cleanups_due = 0
    /\ cleanup_result = NoCode
    /\ disk = Absent
    /\ now = 0
    /\ pc = "idle"
    /\ mem = NoDoc
    /\ idx = 0
    /\ exec_dir = NULL
    /\ dry_run = FALSE
    /\ report = NoReport
    /\ out = NoOut
    /\ marked = <<>>

NextUploads ==
    \/ \E r \in Reqs, c \in Contents \ {EmptyContent} : RequestListing(r, c)
    \/ \E r \in Reqs : RequestSave(r)
    \/ \E r \in Reqs : RequestChecksum(r)
    \/ \E r \in Reqs : RequestReturn(r)

SpecUploads == InitUploads /\ [][NextUploads]_vars

(***************************************************************************)
(* Environment                                                             *)
(***************************************************************************)
\* the clock advances
Tick ==
    /\ now < MaxClock
    /\ now' = now + 1
    /\ UNCHANGED <<disk, orchVars, out, marked>>
    /\ UNCHANGED phaseVars
    /\ UNCHANGED <<runVars, auxVars>>

\* the state file is damaged while nothing runs
Corrupt(kind) ==
    /\ pc = "idle"
    /\ disk.kind = "ok"
    /\ disk' = [kind |-> kind, doc |-> NoDoc]
    /\ out' = NoOut
    /\ UNCHANGED <<now, orchVars, marked>>
    /\ UNCHANGED phaseVars
    /\ UNCHANGED <<runVars, auxVars>>

Tracker ==
    \/ \E stage \in StageArgs : cmd_checkpoint(stage)
    \/ \E stage \in StageArgs : cmd_start(stage)
    \/ \E stage \in StageArgs : cmd_fail(stage)
    \/ cmd_reset
    \/ cmd_resume
    \/ cmd_status
    \/ \E dir \in SpecDirs : cmd_set_spec_dir(dir)

\* the state-tracker commands alone, the clock advancing
NextTracker ==
    \/ Tracker
    \/ \E action \in {"start", "complete", "fail"}, t \in TaskIds : cmd_task(action, t)
    \/ Tick
    \/ \E k \in CorruptKinds : Corrupt(k)

SpecTracker == Init /\ [][NextTracker]_vars

(***************************************************************************)
(* Properties of the state store                                           *)
(***************************************************************************)
IsPersisted == disk.kind = "ok"

\* the first stage of the pipeline that is missing from completed, stated
\* without the loop of get_next_stage
NextOf(doc) ==
    IF doc.failed_stage # NULL THEN doc.failed_stage
    ELSE IF \A i \in 1..NumStages : InSeq(WORKFLOW_STAGES[i], doc.completed_stages)
         THEN "COMPLETE"
         ELSE WORKFLOW_STAGES[CHOOSE i \in 1..NumStages :
                  /\ ~InSeq(WORKFLOW_STAGES[i], doc.completed_stages)
                  /\ \A j \in 1..(i - 1) : InSeq(WORKFLOW_STAGES[j], doc.completed_stages)]

\* C1: whatever transitions and crashes led to the persisted state, resume
\* (next) prints the failed stage when one is set, otherwise the first
\* pipeline stage that is not completed, or COMPLETE when none remains
C1_NextStage ==
    (out.cmd = "resume" /\ IsPersisted) => out.val = NextOf(disk.doc)

\* resume answered with the failed stage although an earlier stage is incomplete
C1_Witness ==
    /\ out.cmd = "resume"
    /\ IsPersisted
    /\ disk.doc.failed_stage # NULL
    /\ out.val = disk.doc.failed_stage
    /\ get_next_stage(disk.doc.completed_stages) # disk.doc.failed_stage
    /\ Len(disk.doc.completed_stages) > 0

\* C2: current_stage, if set, is not in completed_stages (persisted and in memory)
C2_CurrentNotCompleted ==
    /\ IsPersisted =>
         (disk.doc.current_stage # NULL
            => ~InSeq(disk.doc.current_stage, disk.doc.completed_stages))
    /\ mem.current_stage # NULL => ~InSeq(mem.current_stage, mem.completed_stages)

\* C3: failed_stage and current_stage are never both set
C3_FailedCurrentExclusive ==
    /\ IsPersisted => ~(disk.doc.failed_stage # NULL /\ disk.doc.current_stage # NULL)
    /\ ~(mem.failed_stage # NULL /\ mem.current_stage # NULL)

\* C4: every stage is in exactly one of Pending, InProgress, Completed,
\* Failed: no completed stage is the failed stage or the stage in progress
ExactlyOneState(doc) ==
    \A i \in 1..NumStages :
        LET stage == WORKFLOW_STAGES[i] IN
        Cardinality({k \in {"completed", "failed", "inprogress"} :
            \/ k = "completed" /\ InSeq(stage, doc.completed_stages)
            \/ k = "failed" /\ doc.failed_stage = stage
            \/ k = "inprogress" /\ doc.current_stage = stage}) <= 1

C4_OneStatePerStage ==
    /\ IsPersisted => ExactlyOneState(disk.doc)
    /\ ExactlyOneState(mem)

\* C5: completed_stages never holds a stage twice, also after a stage that
\* is already completed is marked complete again
C5_NoDuplicates ==
    /\ IsPersisted => NoDup(disk.doc.completed_stages)
    /\ NoDup(mem.completed_stages)

\* a checkpoint was just given a stage that was completed before
C5_Witness ==
    /\ out = [cmd |-> "checkpoint", val |-> "again"]
    /\ IsPersisted
    /\ Len(disk.doc.completed_stages) >= 2

IsPipelineOrdered(s) ==
    \A i, j \in 1..Len(s) : i < j => StageIndex(s[i]) < StageIndex(s[j])

\* C6 as claimed: completed_stages lists the stages marked complete in
\* pipeline order, whatever the order of the complete calls
C6_PipelineOrder ==
    IsPersisted =>
        /\ SeqSet(disk.doc.completed_stages) = SeqSet(marked)
        /\ IsPipelineOrdered(disk.doc.completed_stages)

\* C6 as amended: completed_stages holds exactly the stages marked complete
\* since the document was created, each once, in the order in which they
\* were first marked
C6_MarkedInCallOrder ==
    IsPersisted => disk.doc.completed_stages = marked

\* stages were marked complete against the pipeline order
C6_Witness ==
    /\ IsPersisted
    /\ Len(disk.doc.completed_stages) >= 2
    /\ ~IsPipelineOrdered(disk.doc.completed_stages)
    /\ marked = disk.doc.completed_stages

\* C7: a persisted document reads back as it was written, by the state
\* tracker and by the orchestrator
C7_Lossless ==
    IsPersisted =>
        /\ load_state(disk, now).st = disk.doc
        /\ WorkflowState_load(disk).res = "loaded"
        /\ WorkflowState_load(disk).st = disk.doc

\* C8: no operation that loads the state ends in an error, whatever the
\* state file holds
C8_NeverAnError ==
    /\ out.val # "exception"
    /\ report.why # "exception"

\* C9: when the orchestrator reports a failed stage to its caller, the
\* persisted failed_stage is that stage
C9_FailurePersisted ==
    (pc = "returned" /\ report.failed # NULL) =>
        (IsPersisted /\ disk.doc.failed_stage = report.failed)

\* the step in which execute_stage ends for a stage that is not completed
\* after it: the stage failed
StageFails ==
    /\ pc \in {"exec", "exec1"}
    /\ pc' # "idle"
    /\ ~InSeq(WORKFLOW_STAGES[idx], mem'.completed_stages)

\* C17: the failure of a stage ends the pipeline run in the same step, with
\* failure: no later stage is started in that run, and completed_stages,
\* in memory and persisted, is what it was before the failure
C17_FailureHalts ==
    [][StageFails =>
          /\ pc' = "returned"
          /\ report'.code = 1
          /\ report'.failed = WORKFLOW_STAGES[idx]
          /\ mem'.completed_stages = mem.completed_stages
          /\ disk'.kind = "ok"
          /\ disk'.doc.completed_stages = mem.completed_stages
          /\ disk'.doc.failed_stage = WORKFLOW_STAGES[idx]]_vars

\* a pipeline run ended at the failure of a stage that is not the last one,
\* after it had completed a stage
C17_Witness ==
    /\ pc = "returned"
    /\ report.why = "stage"
    /\ report.failed \notin {NULL, "implement"}
    /\ Len(mem.completed_stages) >= 1
    /\ ~InSeq("implement", mem.completed_stages)
    /\ ~InSeq(report.failed, mem.completed_stages)
    /\ idx < NumStages

(***************************************************************************)
(* Properties of the task scheduler                                        *)
(***************************************************************************)
\* position of a task in the document
DocPos(t) == CHOOSE i \in 1..Len(tasks) : tasks[i].task_id = t

\* the sequential tasks whose execute_task returned False
FailedSequential ==
    {t \in SeqSet(invoked) : ~get_task(t).is_parallel /\ task_result[t] = "false"}

\* C10: when a sequential task of the phase fails, execute_phase returns
\* failure and no task is invoked after the failing one, neither a later
\* sequential task nor a parallel task of the phase
C10_FailFast ==
    \A t \in FailedSequential :
        /\ invoked[Len(invoked)] = t
        /\ running = {}
        /\ ppc = "done"
        /\ phase_result = "false"

\* a sequential task failed while a later sequential task and a parallel
\* task of the same phase were still to run
C10_Witness ==
    \E t \in FailedSequential :
        /\ phase_result = "false"
        /\ \E i, j \in 1..Len(tasks) :
              /\ i > DocPos(t)
              /\ tasks[i].phase = get_task(t).phase
              /\ tasks[j].phase = get_task(t).phase
              /\ ~tasks[i].is_parallel /\ ~tasks[i].is_completed
              /\ tasks[j].is_parallel /\ ~tasks[j].is_completed
              /\ task_result[tasks[i].task_id] = "none"
              /\ task_result[tasks[j].task_id] = "none"

\* execute_task was entered for the task / has ended for the task
Started(t) == InSeq(t, invoked) \/ task_result[t] # "none"

Finished(t) == task_result[t] # "none" /\ t \notin running

\* the incomplete sequential tasks of the phase of task t
SequentialOfPhaseOf(t) ==
    {tasks[i].task_id : i \in {j \in 1..Len(tasks) :
        /\ tasks[j].phase = get_task(t).phase
        /\ ~tasks[j].is_parallel
        /\ ~tasks[j].is_completed}}

\* the task line at position j is an incomplete sequential task of the
\* phase of the task line at position i
SequentialBeside(i, j) ==
    /\ tasks[j].phase = tasks[i].phase
    /\ ~tasks[j].is_parallel
    /\ ~tasks[j].is_completed

C12_ConcurrencyBound ==
    Cardinality(running) <= max_parallel

\* every worker of a pool of two or more is busy while a submitted task waits
C12_Witness ==
    /\ ppc = "par"
    /\ max_parallel >= 2
    /\ Cardinality(running) = max_parallel
    /\ pending # {}

\* the parallel tasks execute_phase submitted to the pool: the incomplete
\* parallel tasks of the phase, known from the one that started
Submitted ==
    {tasks[i].task_id : i \in {k \in 1..Len(tasks) :
        /\ tasks[k].is_parallel
        /\ ~tasks[k].is_completed
        /\ \E j \in 1..Len(tasks) :
              /\ tasks[j].is_parallel
              /\ tasks[j].phase = tasks[k].phase
              /\ Started(tasks[j].task_id)}}

\* C13: when execute_phase returns after it submitted parallel tasks, every
\* submitted task has run to its end whatever its siblings gave (none is left
\* unstarted or running), and the result is failure exactly when some
\* submitted task returned failure or raised
C13_ParallelCompletion ==
    ppc = "done" =>
        LET submitted == Submitted IN
        submitted # {} =>
            /\ pending = {}
            /\ running = {}
            /\ \A t \in submitted : task_result[t] # "none"
            /\ phase_result \in {"true", "false"}
            /\ phase_result = "false" <=>
                   \E t \in submitted : task_result[t] \in {"false", "raised"}

\* execute_phase returned failure after one parallel task failed, one raised
\* and a third, invoked after a sibling had failed, succeeded
C13_Witness ==
    /\ ppc = "done"
    /\ phase_result = "false"
    /\ \E t, u, v \in Submitted :
          /\ task_result[t] = "false"
          /\ task_result[u] = "raised"
          /\ task_result[v] = "true"
          /\ invoked[Len(invoked)] = v

\* the tasks of the document that are checked complete
CompletedTasks == {t \in SeqSet(TaskIdsOf(tasks)) : get_task(t).is_completed}

\* C14: a task checked complete in the document is skipped: the adapter is
\* never invoked for it, no status record is written for it, execute_task
\* gives success for it, and execute_phase never submits it, to the loop of
\* sequential tasks or to the pool
C14_CompletedSkipped ==
    \A t \in CompletedTasks :
        /\ ~InSeq(t, invoked)
        /\ t \notin running
        /\ status_files[t] = NoCode
        /\ task_result[t] \in {"none", "true"}
        /\ ~InSeq(t, seq_queue)
        /\ t \notin pending

\* execute_task returned success for a completed task in a run that is not
\* a dry run
C14_Witness ==
    \E t \in CompletedTasks :
        /\ ppc = "done"
        /\ ~dry_run
        /\ task_result[t] = "true"
        /\ invoked = <<>>

\* the number of adapter invocations for a task
Invocations(t) == Cardinality({i \in 1..Len(invoked) : invoked[i] = t})

\* C15: for an incomplete task, outside a dry run, execute_task invokes the
\* adapter exactly once, whatever the run gave, persists the status record
\* with the exit code of the run, and returns success exactly when that exit
\* code is 0
C15_OnceRecordedVerdict ==
    \A t \in SeqSet(TaskIdsOf(tasks)) \ CompletedTasks :
        /\ Invocations(t) <= 1
        /\ (task_result[t] # "none" /\ ~dry_run) =>
              /\ Invocations(t) = 1
              /\ status_files[t] # NoCode
              /\ task_result[t] \in {"true", "false"}
              /\ task_result[t] = "true" <=> status_files[t] = 0

\* C16: a failure to write the status file of a task raises nothing to the
\* caller of execute_task or of execute_phase and leaves the verdict of the
\* task to the exit code of its agent, so that a phase fails only when the
\* agent of one of its tasks gave an exit code other than 0
C16_IOFailureSwallowed ==
    /\ \A t \in TaskNums : task_result[t] # "raised"
    /\ phase_result # "raised"
    /\ phase_result = "false" =>
          \E t \in TaskNums : status_files[t] \notin {NoCode, 0}

(***************************************************************************)
(* Properties of the execution runner                                      *)
(***************************************************************************)
\* a text echoes the command exactly: read back as a command line it gives
\* the arguments of the command, no more, no fewer and none changed
EchoesExactly(text) == shlex_split(text) = [ok |-> TRUE, args |-> argv]

\* C18: with dry_run no child process is spawned, the result is a success
\* with exit code 0, and the command it echoes is exactly the argument
\* vector build_command gives
C18_DryRunEcho ==
    /\ dry_run =>
          /\ invoked = <<>>
          /\ child = NoChild
          /\ ~exec_result.spawned
          /\ \A t \in TaskNums : task_result[t] \in {"none", "true"}
    /\ (dry_run /\ ppc = "called") =>
          /\ exec_result.exit_code = 0
          /\ EchoesExactly(exec_result.command)
    /\ printed # NotPrinted => EchoesExactly(printed)

\* C19: a spawn failure is returned as a result: a child that runs longer
\* than timeout_minutes * 60 seconds gives exit code 124 and a stderr that
\* names the configured minutes, a missing executable gives 127 and the
\* install guidance, any other spawn failure gives 1, none of them is a
\* success; a child that exits in time gives its own exit code
C19_SpawnFailures ==
    child.kind # "none" =>
        /\ child.kind = "runs" /\ child.seconds > timeout_minutes * 60 =>
              /\ exec_result.exit_code = 124
              /\ exec_result.stderr.msg = "timed_out"
              /\ exec_result.stderr.minutes = timeout_minutes
              /\ ~success(exec_result)
        /\ child.kind = "runs" /\ child.seconds <= timeout_minutes * 60 =>
              /\ exec_result.exit_code = child.code
              /\ exec_result.stderr.msg = "child"
        /\ child.kind = "missing" =>
              /\ exec_result.exit_code = 127
              /\ exec_result.stderr.install
              /\ ~success(exec_result)
        /\ child.kind = "oserror" =>
              /\ exec_result.exit_code = 1
              /\ ~success(exec_result)

\* a child that would have exited with 0 ran beyond a timeout of two minutes
C19_Witness ==
    /\ child.kind = "runs"
    /\ child.code = 0
    /\ timeout_minutes = 2
    /\ child.seconds > 120
    /\ exec_result.exit_code = 124
    /\ exec_result.stderr.minutes = 2

(***************************************************************************)
(* Properties of the command line                                          *)
(***************************************************************************)
\* the run was interrupted: a task was invoked and execute_task never ended
Interrupted == \E t \in TaskNums : InSeq(t, invoked) /\ task_result[t] = "none"

\* every execute_task and the execute_phase that ended gave success
AllPassed ==
    /\ \A t \in TaskNums : task_result[t] \in {"none", "true"}
    /\ phase_result \in {"none", "true"}

\* C20 as claimed: the exit status of the process is 130 after an
\* interrupt, 124 when the run of the task timed out, 127 when the
\* executable of the agent is missing, 0 on success and 1 otherwise
C20_ExitStatusDistinguishes ==
    ppc = "exited" =>
        exit_status =
            IF Interrupted THEN 130
            ELSE IF AllPassed THEN 0
            ELSE IF exec_result.exit_code = 124 THEN 124
            ELSE IF exec_result.exit_code = 127 THEN 127
            ELSE 1

\* C20 as amended: the exit status of the process is 130 after an interrupt,
\* 0 on success and 1 for every other failure, a run that timed out and a
\* missing executable included
C20_ExitStatus ==
    ppc = "exited" =>
        exit_status =
            IF Interrupted THEN 130
            ELSE IF AllPassed THEN 0
            ELSE 1

\* the process exited with 1 after the run of its task timed out
C20_Witness ==
    /\ ppc = "exited"
    /\ exit_status = 1
    /\ exec_result.exit_code = 124
    /\ \E t \in TaskNums : status_files[t] = 124

(***************************************************************************)
(* Properties of the task parser                                           *)
(***************************************************************************)
\* the text after the id without the parallel marker, the story reference
\* that was recognized and the path that was recognized
StrippedText(rest) ==
    LET story == FirstOf(rest, StoryTokens)
        path == FirstOf(rest, PathTokens)
    IN  SelectSeq(rest, LAMBDA x : x # ParallelToken /\ x # story /\ x # path)

\* C21: every task the parser yields has the id of its line, the completed
\* flag of the checkbox, the parallel flag set iff the parallel marker is
\* present, the story tag, the back-quoted path, and as description the
\* remaining text with the parallel marker, the story reference and the
\* back-quoted path stripped.
C21_ParsedFields ==
    \A i \in 1..Len(scanned) :
        LET t == scanned[i]
            line == t.raw_line
            story == FirstOf(line.rest, StoryTokens)
            path == FirstOf(line.rest, PathTokens)
        IN  /\ t.task_id = line.task_id
            /\ t.is_completed = (line.checkbox \in {"x", "X"})
            /\ t.is_parallel = InSeq(ParallelToken, line.rest)
            /\ t.user_story = (IF story = NULL THEN NULL ELSE story_of(story))
            /\ t.file_path = (IF path = NULL THEN NULL ELSE path_of(path))
            /\ t.description = StrippedText(line.rest)

\* the number of the last phase header among the first n lines, or NoPhase
HeaderBefore(n) ==
    LET headers == {i \in 1..n : tasks_file[i].kind = "header"}
    IN  IF headers = {} THEN NoPhase
        ELSE tasks_file[CHOOSE i \in headers : \A j \in headers : j <= i].number

\* the position in the document of the k-th task line
TaskLinePos(k) ==
    CHOOSE i \in 1..Len(tasks_file) :
        /\ tasks_file[i].kind = "task"
        /\ Cardinality({j \in 1..i : tasks_file[j].kind = "task"}) = k

\* the phase headers read so far carry non-decreasing numbers
HeadersAscend ==
    \A i, j \in 1..line_no :
        (i < j /\ tasks_file[i].kind = "header" /\ tasks_file[j].kind = "header")
            => tasks_file[i].number <= tasks_file[j].number

PhasesAscend ==
    \A i, j \in 1..Len(scanned) : i < j => scanned[i].phase <= scanned[j].phase

FromLastHeader ==
    \A k \in 1..Len(scanned) : scanned[k].phase = HeaderBefore(TaskLinePos(k))

\* C22 as stated: for any document, the phase numbers given to successive
\* task lines never decrease in scan order, each task line receiving the
\* number of the most recent phase header before it.
C22_PhasesMonotonic == PhasesAscend /\ FromLastHeader

\* C22: every task line receives the number of the most recent phase header
\* before it, or no phase when no header precedes it; the numbers given to
\* successive task lines never decrease when the numbers of the headers
\* read do not decrease.
C22_PhaseOfLastHeader == FromLastHeader /\ (HeadersAscend => PhasesAscend)

\* two task lines scanned, the second under a header with a lower number
C22_Witness ==
    /\ parse_pc = "returned"
    /\ Len(scanned) >= 2
    /\ scanned[1].phase = 2
    /\ scanned[2].phase = 1
    /\ ~HeadersAscend

\* the positions, among the lines read so far, of the task lines with this id
Occurrences(id) ==
    {i \in 1..line_no : tasks_file[i].kind = "task" /\ tasks_file[i].task_id = id}

LastOccurrence(id) == CHOOSE i \in Occurrences(id) : \A j \in Occurrences(id) : j <= i

\* C23: the parsed map holds one task per id; when an id repeats, every
\* field of its task (description, raw line, completed flag, parallel flag,
\* story, phase, file path) is that of the later occurrence, nothing of the
\* earlier one remaining; an id with no task line has no task, so a line
\* that is neither a phase header nor a task line leaves the map unchanged.
C23_LaterOverwrites ==
    \A id \in DocTaskIds :
        IF Occurrences(id) = {} THEN parsed_tasks[id] = NoTask
        ELSE LET last == LastOccurrence(id)
             IN  /\ parsed_tasks[id] = parse_line(tasks_file[last], HeaderBefore(last))
                 /\ parsed_tasks[id].raw_line = tasks_file[last]
                 /\ parsed_tasks[id].task_id = id

\* an id parsed twice, from lines that differ in every field, with a line of
\* neither shape read after them
C23_Witness ==
    /\ parse_pc = "returned"
    /\ \E id \in DocTaskIds :
          /\ Cardinality(Occurrences(id)) = 2
          /\ LET last == LastOccurrence(id)
                 first == CHOOSE i \in Occurrences(id) : i # last
                 early == parse_line(tasks_file[first], HeaderBefore(first))
                 late == parsed_tasks[id]
             IN  /\ late.raw_line = tasks_file[last]
                 /\ early.description # late.description
                 /\ early.is_completed # late.is_completed
                 /\ early.is_parallel # late.is_parallel
                 /\ early.user_story # late.user_story
                 /\ early.phase # late.phase
                 /\ early.file_path # late.file_path
                 /\ \E k \in (last + 1)..Len(tasks_file) : tasks_file[k].kind = "other"

\* what get_phase_tasks answers once the document is parsed
PhaseTasksOf(n) == get_tasks_by_phase(dict_keys(scanned), parsed_tasks, n)

\* C34: get_phase_tasks(n) returns exactly the tasks whose phase number is
\* n, each once, in document order: in the order of the source lines from
\* which the returned task records were parsed, also when a task id occurs
\* more than once in the document.
C34_DocumentOrder ==
    parse_pc = "returned" =>
        \A n \in 1..MaxPhase :
            LET got == PhaseTasksOf(n)
            IN  /\ SeqSet(got) = {parsed_tasks[id] : id \in
                                     {k \in DocTaskIds : /\ parsed_tasks[k] # NoTask
                                                         /\ parsed_tasks[k].phase = n}}
                /\ NoDup(got)
                /\ \A i, j \in 1..Len(got) :
                      i < j => LastOccurrence(got[i].task_id) < LastOccurrence(got[j].task_id)

(***************************************************************************)
(* Properties of the prompt                                                *)
(***************************************************************************)
\* the text after the slash command in the prompt of the command built
SuffixOf(cmd) == SubSeq(cmd[Len(cmd)], 3, Len(cmd[Len(cmd)]))

\* the sentences, beyond the base ones, that only this stage's suffix has
ElaborationsOf(stage) ==
    {e \in SeqSet(build_autonomous_suffix(stage)) \ SeqSet(BaseDirectives) :
        \A other \in SeqSet(WORKFLOW_STAGES) \ {stage} :
            e \notin SeqSet(build_autonomous_suffix(other))}

\* C24: for every stage of the pipeline, the autonomous suffix built for the
\* stage holds the four base directives (no user questions, no skipped steps
\* or confirmation, document assumptions, complete all work unprompted) and
\* one elaboration of its own, that no other stage's suffix has.
C24_StageElaboration ==
    (built # NotBuilt /\ context.mode = "stage" /\ context.no_ask_user) =>
        /\ SuffixOf(built) = build_autonomous_suffix(context.stage)
        /\ \A k \in 2..5 : InSeq(BaseDirectives[k], SuffixOf(built))
        /\ Cardinality(ElaborationsOf(context.stage)) = 1
        /\ \A e \in ElaborationsOf(context.stage) : InSeq(e, SuffixOf(built))

(***************************************************************************)
(* Properties of the configuration                                         *)
(***************************************************************************)
InRange(key, value) == CONFIG_SCHEMA[key].min <= value /\ value <= CONFIG_SCHEMA[key].max

\* C25: whenever a task runs, the configuration it runs with is within the
\* validated ranges, max concurrency in 1..10 and timeout in 1..120 minutes,
\* whether the values came from the configuration file, from config-manager
\* set or from --parallel; with a value out of range no task runs.
C25_ConfigInRange ==
    invoked # <<>> =>
        /\ InRange("max_parallel", max_parallel)
        /\ InRange("timeout_minutes", timeout_minutes)

(***************************************************************************)
(* Properties of reset and start                                           *)
(***************************************************************************)
\* C26: reset discards all progress: in the state persisted by it,
\* completed_stages is empty, current_stage, failed_stage and failed_at are
\* null, the map of task statuses is empty, the workflow id and the
\* timestamps are generated at the time of the reset, and next (resume)
\* answers the first stage of the pipeline.
C26_ResetDiscardsAll ==
    [][cmd_reset =>
        /\ disk'.kind = "ok"
        /\ disk'.doc.completed_stages = <<>>
        /\ disk'.doc.current_stage = NULL
        /\ disk'.doc.failed_stage = NULL
        /\ disk'.doc.failed_at = NoTime
        /\ disk'.doc.task_status.present
        /\ \A t \in TaskIds : disk'.doc.task_status.map[t] = "none"
        /\ disk'.doc.workflow_id = now
        /\ disk'.doc.started_at = now
        /\ disk'.doc.updated_at = now
        /\ NextOf(disk'.doc) = WORKFLOW_STAGES[1]
        /\ resume_output(load_state(disk', now).st) = WORKFLOW_STAGES[1]]_vars

\* the persisted document is blank and was created after the clock moved:
\* only a reset writes such a document, every other command that creates
\* one sets a field of it
C26_Witness ==
    /\ IsPersisted
    /\ now > 0
    /\ disk.doc = [create_initial_state(now) EXCEPT !.updated_at = now]
    /\ marked = <<>>
    /\ out = NoOut

\* a step that starts the stage from a readable state: the state-tracker
\* command on the persisted document, or the orchestrator on its own state
TrackerStarts(stage) == IsPersisted /\ cmd_start(stage)

OrchestratorStarts(stage) ==
    ExecuteStageBegin /\ ~dry_run /\ idx <= NumStages /\ WORKFLOW_STAGES[idx] = stage

\* what start is said to do to the state `before`, giving `after`
StartEffect(before, after, stage) ==
    /\ after.current_stage = stage
    /\ IF before.failed_stage = stage
       THEN after.failed_stage = NULL /\ after.failed_at = NoTime
       ELSE after.failed_stage = before.failed_stage /\ after.failed_at = before.failed_at
    /\ after.completed_stages = before.completed_stages

\* C30: start(stage) sets current_stage to the stage and clears failed_stage
\* and failed_at exactly when failed_stage is that stage; a failure recorded
\* for another stage and completed_stages are left as they were.
C30_StartClearsOwnFailure ==
    [][\A stage \in SeqSet(WORKFLOW_STAGES) :
          /\ TrackerStarts(stage) => StartEffect(disk.doc, disk'.doc, stage)
          /\ OrchestratorStarts(stage) => StartEffect(mem, disk'.doc, stage)]_vars

(***************************************************************************)
(* Properties of the release server                                        *)
(***************************************************************************)
\* the upload request was answered 409 and ended having written nothing
Rejected409 ==
    /\ upload_resp' = 409
    /\ upload' = NoUpload
    /\ files' = files

\* C27: an upload with overwrite = False of a filename that already exists
\* in the storage is rejected with 409 Conflict and writes nothing: the
\* request ends there, the stored content and checksums unchanged, after
\* any sequence of uploads and deletes.
C27_ConflictRejected ==
    [][\A name \in UploadNames, content \in Contents :
          (UploadBegin(name, content, FALSE) /\ files[name] # NoFile) => Rejected409]_vars

\* the names of the max_packages newest packages of a storage
Retained(fs, n) ==
    LET packages == newest_first(fs, list_packages(fs))
    IN  {packages[i] : i \in 1..(IF Len(packages) < n THEN Len(packages) ELSE n)}

\* C28: cleanup_old_packages enforces the retention policy: every package
\* it deletes is, when it is deleted, not among the max_packages newest
\* packages of the storage.
C28_RetentionPolicy ==
    [][(CleanupDelete /\ files[Head(cleanup.todo)] # NoFile)
          => Head(cleanup.todo) \notin Retained(files, max_packages)]_vars

(***************************************************************************)
(* Properties of create_work_dir                                           *)
(***************************************************************************)
Ended(p) == calls[p].pc \in {"returned", "raised"}

\* C29: create_work_dir handles races: every concurrent call that ends
\* has returned a numbered directory, one that it created and no other
\* call created, and no two calls return the same directory.
C29_EachCallReturnsOwnDir ==
    /\ \A p \in Procs : Ended(p) =>
          /\ calls[p].pc = "returned"
          /\ calls[p].result \in calls[p].made
          /\ \A q \in Procs \ {p} : calls[p].result \notin calls[q].made
    /\ \A p, q \in Procs :
          (p # q /\ calls[p].pc = "returned" /\ calls[q].pc = "returned")
             => calls[p].result # calls[q].result

(***************************************************************************)
(* Properties of complete, of persistence and of the writers               *)
(***************************************************************************)
\* a step that completes the stage from a readable state: the state-tracker
\* command on the persisted document, or the orchestrator on its own state
TrackerCompletes(stage) == IsPersisted /\ cmd_checkpoint(stage)

OrchestratorCompletes(stage) ==
    ExecuteStageEnd(TRUE) /\ idx <= NumStages /\ WORKFLOW_STAGES[idx] = stage

\* what complete is said to do to the state before, giving the state after
CompleteEffect(before, after, stage) ==
    /\ IF InSeq(stage, before.completed_stages)
       THEN after.completed_stages = before.completed_stages
       ELSE after.completed_stages = Append(before.completed_stages, stage)
    /\ IF before.current_stage = stage
       THEN after.current_stage = NULL
       ELSE after.current_stage = before.current_stage

\* C31: complete(stage) appends the stage to completed_stages if it is
\* absent and clears current_stage only if current_stage is that stage; a
\* current_stage that names another stage is left as it was.
C31_CompleteEffect ==
    [][\A stage \in SeqSet(WORKFLOW_STAGES) :
          /\ TrackerCompletes(stage) => CompleteEffect(disk.doc, disk'.doc, stage)
          /\ OrchestratorCompletes(stage) => CompleteEffect(mem, disk'.doc, stage)]_vars

\* a checkpoint was given a stage while current_stage named another stage,
\* which is still the current stage
C31_Witness ==
    /\ out = [cmd |-> "checkpoint", val |-> "again"]
    /\ IsPersisted
    /\ disk.doc.current_stage # NULL
    /\ ~InSeq(disk.doc.current_stage, disk.doc.completed_stages)

\* a step in which the orchestrator process dies
Crash == Kill \/ SaveInterrupted

\* a step in which the orchestrator makes a transition and goes on
Transition ==
    \/ ExecuteStageBegin /\ ~dry_run
    \/ \E ok \in BOOLEAN : ExecuteStageEnd(ok)

\* C32: every transition persists immediately: when start, complete or
\* fail returns, the persisted document is the in-memory state; a crash at
\* any point leaves a persisted document that the next run reads back as
\* the state before or after the transition in flight, and a crash while a
\* stage executes leaves that stage as the persisted current_stage.
C32_PersistsImmediately ==
    [][/\ Transition => (disk'.kind = "ok" /\ disk'.doc = mem')
       /\ Crash =>
            /\ WorkflowState_load(disk').res = "loaded"
            /\ WorkflowState_load(disk').st.completed_stages = mem.completed_stages
       /\ (Crash /\ pc \in {"exec", "exec1"}) =>
            WorkflowState_load(disk').st.current_stage = WORKFLOW_STAGES[idx]]_vars

\* the steps taken inside the worker pool
WorkerStep ==
    \E t \in TaskNums :
        \/ ParStart(t)
        \/ \E c \in ExitCodes, io_ok \in BOOLEAN : ParFinish(t, c, io_ok)

\* C33: no two concurrently running actors write the same persisted
\* document: the workers of the pool never write the WorkflowState
\* document, and two workers running at the same time have different task
\* status files.
C33_NoSharedDocument ==
    /\ [](\A t, u \in running : t # u => status_file(t) # status_file(u))
    /\ [][WorkerStep => disk' = disk]_vars

\* two workers run while a third task of the pool has written its status file
C33_Witness ==
    /\ ppc = "par"
    /\ Cardinality(running) >= 2
    /\ \E i \in 1..Len(tasks) :
          /\ tasks[i].task_id \notin running
          /\ tasks[i].is_parallel
          /\ status_files[status_file(tasks[i].task_id)] # NoCode

(***************************************************************************)
(* Properties of whole runs of the orchestrator                            *)
(***************************************************************************)
\* a run that was not a dry run returned success from the end of the stage loop
FreshRunSucceeded ==
    /\ pc = "returned"
    /\ report = [code |-> 0, failed |-> NULL, why |-> "ok"]
    /\ ~dry_run
    /\ idx = NumStages + 1
    /\ IsPersisted

\* C36: after an autonomous run that is not a dry run, starts from a fresh
\* state and returns success, the persisted completed_stages holds all seven
\* stages, implement among them, current_stage and failed_stage are null, and
\* get_next_stage gives None (a later resume finds nothing to run).  Under
\* SpecAuto every run is the first one and starts at specify with no state file.
C36_SuccessfulRunIsComplete ==
    FreshRunSucceeded =>
        /\ SeqSet(disk.doc.completed_stages) = SeqSet(WORKFLOW_STAGES)
        /\ disk.doc.current_stage = NULL
        /\ disk.doc.failed_stage = NULL
        /\ get_next_stage(disk.doc.completed_stages) = NULL

\* the stage the run a --resume started begins with, "COMPLETE" when it
\* exits with success without running a stage, "error" otherwise
ResumeStartsAt ==
    IF pc' = "loop" /\ idx' <= NumStages THEN WORKFLOW_STAGES[idx']
    ELSE IF pc' = "returned" /\ report'.code = 0 THEN "COMPLETE"
    ELSE "error"

\* C38: for every persisted state, vibe_workflow.py --resume starts from the
\* stage that state-tracker.py resume prints for that state (the failed stage
\* when one is set, otherwise the first pipeline stage missing from
\* completed_stages), and it exits with success without running a stage
\* exactly when state-tracker.py resume prints COMPLETE.  Stated for the
\* documents WorkflowState.load reads.
C38_ResumeAgrees ==
    [][ \A d \in SpecDirs \cup {NULL}, dry \in BOOLEAN :
          (MainResume(d, dry) /\ WorkflowState_load(disk).res = "loaded") =>
              ResumeStartsAt = resume_output(disk.doc)
      ]_vars

\* C39: a resumed run never executes a stage that is in completed_stages,
\* whatever earlier runs (also runs started at a named stage with --stage)
\* left in the state: every stage a run starts is absent from
\* completed_stages when it starts.  Under SpecResume the first run starts
\* with an empty completed_stages and every other run is a resumed run.
C39_ResumeSkipsCompleted ==
    [][ (ExecuteStageBegin /\ ~dry_run) =>
            ~InSeq(WORKFLOW_STAGES[idx], mem.completed_stages)
      ]_vars

(***************************************************************************)
(* Properties of the implement stage                                       *)
(***************************************************************************)
TimesInvoked(t) == Cardinality({i \in 1..Len(invoked) : invoked[i] = t})

\* C37: when _run_implementation returns True, every task of the document
\* that was incomplete when parsed has been executed exactly once, whatever
\* its phase number is, and the phases were visited in ascending order.
C37_EveryTaskExecuted ==
    (impl.pc = "done" /\ impl.result = "true") =>
        /\ \A i \in 1..Len(tasks) :
              ~tasks[i].is_completed => TimesInvoked(tasks[i].task_id) = 1
        /\ \A i, j \in 1..Len(impl.visited) : i < j => impl.visited[i] < impl.visited[j]

(***************************************************************************)
(* Properties of uploads served at once                                    *)
(***************************************************************************)
Succeeded == {r \in Reqs : requests[r].pc = "done" /\ requests[r].resp = 200}

AllAnswered == \A r \in Reqs : requests[r].pc = "done"

\* C40: in every interleaving of upload requests with overwrite=False for one
\* file name, at most one request succeeds and every other one is answered
\* 409, and once all are answered the stored content and the stored checksum
\* are those of the request that succeeded.
C40_OneUploadWins ==
    /\ Cardinality(Succeeded) <= 1
    /\ AllAnswered =>
          /\ \A r \in Reqs \ Succeeded : requests[r].resp = 409
          /\ \A r \in Succeeded :
                /\ files[UploadedName].content = requests[r].content
                /\ files[Sidecar(UploadedName)].content = hexdigest(requests[r].content)

(***************************************************************************)
(* Properties of the adapter registry                                      *)
(***************************************************************************)
Registered(name) == name \in DOMAIN adapters

\* C35: in every sequence of register, set_default and get calls, a register
\* whose construction fails returns normally and leaves the name -> class map
\* and the default name as they were, a set_default of a name that is not
\* registered raises and leaves the default as it was, and get(name) gives an
\* instance (of the class registered under the name) exactly when the name is
\* registered and None otherwise.
C35_RegistryOperations ==
    [][ /\ \A c \in AdapterClasses :
            (Register(c) /\ ~c.constructs) =>
                /\ adapters' = adapters
                /\ default_adapter' = default_adapter
                /\ reg_out'.error = NULL
        /\ \A n \in AdapterNames :
            (SetDefault(n) /\ ~Registered(n)) =>
                /\ reg_out'.error = "ValueError"
                /\ default_adapter' = default_adapter
        /\ \A n \in AdapterNames :
            Get(n) =>
                /\ reg_out'.error = NULL
                /\ Registered(n) => reg_out'.gave = adapters[n].cls
                /\ ~Registered(n) => reg_out'.gave = NULL
      ]_vars

\* the registration of a class that cannot be constructed, under a name that is
\* registered and is the default, has returned
C35_Witness ==
    /\ reg_out.op = "register"
    /\ reg_out.arg = "BrokenClaude"
    /\ reg_out.error = NULL
    /\ Registered("claude-code")
    /\ adapters["claude-code"].cls = "ClaudeAdapter"
    /\ default_adapter = "claude-code"
    /\ ~Registered("broken")

(***************************************************************************)
(* Specifications                                                          *)
(***************************************************************************)
\* the state store and the orchestrator at one instant of the clock
Next ==
    \/ Tracker
    \/ Orchestrator
    \/ \E k \in CorruptKinds : Corrupt(k)

Spec == Init /\ [][Next]_vars

\* the same with the clock advancing
NextTimed ==
    \/ Next
    \/ Tick

SpecTimed == Init /\ [][NextTimed]_vars

\* the state store and the orchestrator, the orchestrator dying also in the
\* middle of a write of the state file
NextCrash ==
    \/ Next
    \/ SaveInterrupted

SpecCrash == Init /\ [][NextCrash]_vars

\* one autonomous run of the whole pipeline, started where no state file exists
NextAuto ==
    \/ \E d \in SpecDirs \cup {NULL}, r \in Requirements, dry \in BOOLEAN :
          MainAuto(NULL, d, r, dry)
    \/ ExecuteStageBegin
    \/ \E ok \in BOOLEAN : ExecuteStageEnd(ok)
    \/ \E t \in {"ok", "failed", "raise"} : RunImplementation(t)
    \/ WorkflowDone
    \/ Tick

SpecAuto == Init /\ [][NextAuto]_vars

\* a first run, started where no state file exists, at any stage
FirstRun(stage_arg, dir_arg, req, dry) ==
    /\ disk = Absent
    /\ MainAuto(stage_arg, dir_arg, req, dry)

\* a first run and then resumed runs only: a run ends by returning or by
\* being killed, and every later run is started with --resume
NextResume ==
    \/ \E s \in StageArgs \cup {NULL}, d \in SpecDirs \cup {NULL},
          r \in Requirements, dry \in BOOLEAN : FirstRun(s, d, r, dry)
    \/ \E d \in SpecDirs \cup {NULL}, dry \in BOOLEAN : MainResume(d, dry)
    \/ ExecuteStageBegin
    \/ \E ok \in BOOLEAN : ExecuteStageEnd(ok)
    \/ \E t \in {"ok", "failed", "raise"} : RunImplementation(t)
    \/ WorkflowDone
    \/ Exit
    \/ Kill

SpecResume == Init /\ [][NextResume]_vars

====
